---- MODULE Spec2Model ----
(***************************************************************************)
(* A model of atomic-db-interface (src/src/index.ts): the in-memory store  *)
(* AtomicMemoryDb with its optimistic-locking protocol (getLock and        *)
(* setAtomic).                                                             *)
(*                                                                         *)
(* Strings are sequences of one-character strings, so that the storage key *)
(* `${pk}:${sk}` is a real concatenation.  A ULID version token is         *)
(* modelled by its rank in the order of generation (nextVersion): two      *)
(* tokens are equal iff they come from the same call of the generator      *)
(* (80 random bits per token; an accidental repetition is left out).       *)
(* An absent optional number (ttl, limit) is Undefined.                    *)
(*                                                                         *)
(* Spec runs every method of one AtomicMemoryDb within one second of the   *)
(* clock; SpecTime runs the lock manager while the clock moves; SpecRace   *)
(* runs the callers of the race test; SpecRead runs the reads over a store *)
(* of two partitions; SpecCache runs get through an AtomicLRUCache that    *)
(* wraps the store, next to direct writes to the store; SpecCacheOps runs  *)
(* every method of the cache for one caller, one call at a time, with a    *)
(* backend whose set and delete may throw and with writes to the store     *)
(* between the calls; SpecCacheRace runs a reader and a writer whose calls *)
(* overlap; SpecCacheLock runs getLock and setAtomic through the cache;    *)
(* SpecCacheTtl runs the cache over items with a ttl while the clock       *)
(* moves; SpecLockTtl runs the lock manager with locks whose ttl the       *)
(* caller has set; SpecCacheSeq runs the writes through one cache, one     *)
(* call at a time; SpecCacheDelete runs a reader next to delete on the     *)
(* cache; SpecFrame runs the reads and delete over items and locks.        *)
(* A method of the cache is two steps, one up to its await and one after.  *)
(***************************************************************************)
EXTENDS Integers, Sequences, FiniteSets, TLC

VARIABLES
    items,        \* AtomicMemoryDb.items: the Map, as its entries in insertion order
    locks,        \* AtomicMemoryDb.locks: storage key -> lock
    now,          \* Math.floor(Date.now() / 1000)
    nextVersion,  \* the rank of the next version token the generator returns
    pending,      \* the query of the stream that was created and not yet read
    retired,      \* history: the versions that were persisted and then replaced or removed
    pc,           \* the callers of SpecRace: where each one stands
    held,         \* the lock each caller got from getLock
    outcome,      \* the outcome of each caller's setAtomic
    intruded,     \* history: the callers that held their lock while a set was made
    ticks,        \* the number of steps the clock has made
    cache,        \* AtomicLRUCache.cache: its entries, the most recently used first
    fetching,     \* the calls of the cache that wait for the backend's answer
    capacity      \* the cacheSize the AtomicLRUCache was constructed with

vars == <<items, locks, now, nextVersion, pending, retired, pc, held, outcome, intruded, ticks, cache, fetching, capacity>>

cacheVars == <<cache, fetching, capacity>>

-----------------------------------------------------------------------------
(* Bounds and program constants *)

MaxBatch == 2
MaxVersion == 4
MaxTicks == 3
NumCallers == 2

LockTtl == 86400
RefreshThreshold == 3600
CacheSize == 2
Epoch == 1000000
Undefined == -1

-----------------------------------------------------------------------------
(* Values *)

Key(pk, sk) == [pk |-> pk, sk |-> sk]
Item(key, data, ttl) == [pk |-> key.pk, sk |-> key.sk, data |-> data, ttl |-> ttl]
Lock(key, version, ttl) == [pk |-> key.pk, sk |-> key.sk, version |-> version, ttl |-> ttl]
KeyOf(x) == [pk |-> x.pk, sk |-> x.sk]

Absent == [absent |-> TRUE]

\* items | [items]: a scalar argument or an array
Scalar(x) == [isArray |-> FALSE, v |-> x]
Array(s) == [isArray |-> TRUE, v |-> s]
toArray(x) == IF x.isArray THEN x.v ELSE <<x.v>>

SeqsUpTo(S, n) == UNION {[1..m -> S] : m \in 0..n}

-----------------------------------------------------------------------------
(* The Map of items, in insertion order, and the Map of locks *)

MapHas(m, k) == \E i \in 1..Len(m) : m[i].k = k
MapIndex(m, k) == CHOOSE i \in 1..Len(m) : m[i].k = k
MapGet(m, k) == m[MapIndex(m, k)].v
\* A faulty variant of MapSet: an entry that is there is kept
MapSetIfAbsent(m, k, v) ==
    IF MapHas(m, k) THEN m ELSE Append(m, [k |-> k, v |-> v])

MapSet(m, k, v) ==
    IF MapHas(m, k)
    THEN [m EXCEPT ![MapIndex(m, k)] = [k |-> k, v |-> v]]
    ELSE Append(m, [k |-> k, v |-> v])
MapDelete(m, k) == SelectSeq(m, LAMBDA e : e.k # k)
MapKeys(m) == {m[i].k : i \in 1..Len(m)}

LockSet(m, k, v) == [x \in DOMAIN m \cup {k} |-> IF x = k THEN v ELSE m[x]]
LockDelete(m, k) == [x \in DOMAIN m \ {k} |-> m[x]]

-----------------------------------------------------------------------------
(* AtomicMemoryDb *)

getKey(key) == key.pk \o <<":">> \o key.sk

isExpired(ttl, t) ==
    IF ttl = Undefined \/ ttl = 0 THEN FALSE ELSE t > ttl

cleanExpired(m, k, t) ==
    IF MapHas(m, k) /\ isExpired(MapGet(m, k).ttl, t)
    THEN [map |-> MapDelete(m, k), expired |-> TRUE]
    ELSE [map |-> m, expired |-> FALSE]

MemGet(its, key, t) ==
    LET k == getKey(key)
        c == cleanExpired(its, k, t)
    IN  IF c.expired
        THEN [items |-> c.map, ret |-> Absent]
        ELSE [items |-> its, ret |-> IF MapHas(its, k) THEN MapGet(its, k) ELSE Absent]

\* A faulty variant of getMany: it leaves out the keys that have no item
RECURSIVE MemGetManyFound(_, _, _, _, _)
MemGetManyFound(its, keys, t, i, acc) ==
    IF i > Len(keys)
    THEN [items |-> its, ret |-> acc]
    ELSE LET r == MemGet(its, keys[i], t)
         IN  MemGetManyFound(r.items, keys, t, i + 1,
                             IF r.ret = Absent THEN acc ELSE Append(acc, r.ret))

\* keys.map((key) => this.get(key)): the gets run in the order of the keys
RECURSIVE MemGetManyFrom(_, _, _, _, _)
MemGetManyFrom(its, keys, t, i, acc) ==
    IF i > Len(keys)
    THEN [items |-> its, ret |-> acc]
    ELSE LET r == MemGet(its, keys[i], t)
         IN  MemGetManyFrom(r.items, keys, t, i + 1, Append(acc, r.ret))

MemGetMany(its, keys, t) == MemGetManyFrom(its, keys, t, 1, <<>>)

\* A faulty variant of ulid: a generator that repeats its token
ulidRepeats(n) == 1

\* monotonicFactory()(): the n-th token generated
ulid(n) == n

\* Faulty variants of needsRefresh: every read refreshes; the threshold itself refreshes
needsRefreshAlways(existingLock, t) == TRUE

needsRefreshInclusive(existingLock, t) ==
    \/ existingLock.ttl = Undefined
    \/ existingLock.ttl = 0
    \/ existingLock.ttl - t <= RefreshThreshold

needsRefresh(existingLock, t) ==
    \/ existingLock.ttl = Undefined
    \/ existingLock.ttl = 0
    \/ existingLock.ttl - t < RefreshThreshold

\* A faulty variant of MemGetLock: the new lock is returned and not persisted
MemGetLockNoPersist(lks, key, t, nv) ==
    LET k == getKey(key)
        newLock == Lock(key, nv, t + LockTtl)
    IN  IF k \in DOMAIN lks /\ lks[k].ttl - t >= RefreshThreshold
        THEN [locks |-> lks, nextVersion |-> nv, ret |-> lks[k]]
        ELSE [locks |-> lks, nextVersion |-> nv + 1, ret |-> newLock]

MemGetLock(lks, key, t, nv) ==
    LET k == getKey(key)
        ttl == t + LockTtl
        newLock == Lock(key, ulid(nv), ttl)
    IN  IF k \in DOMAIN lks /\ ~needsRefresh(lks[k], t)
        THEN [locks |-> lks, nextVersion |-> nv, ret |-> lks[k]]
        ELSE [locks |-> LockSet(lks, k, newLock), nextVersion |-> nv + 1, ret |-> newLock]

RECURSIVE MemSetFrom(_, _, _)
MemSetFrom(its, itemArray, i) ==
    IF i > Len(itemArray)
    THEN its
    ELSE MemSetFrom(MapSet(its, getKey(itemArray[i]), itemArray[i]), itemArray, i + 1)

MemSet(its, itemsArg) == MemSetFrom(its, toArray(itemsArg), 1)

lockIsValid(lks, lock) ==
    LET k == getKey(lock)
    IN  k \in DOMAIN lks /\ lks[k].version = lock.version

allLocksValid(lks, lockArray) ==
    \A i \in 1..Len(lockArray) : lockIsValid(lks, lockArray[i])

\* A faulty variant of commitFrom: the locks keep the version they had
RECURSIVE commitFromKeepVersion(_, _, _, _, _, _)
commitFromKeepVersion(its, lks, nv, itemArray, lockArray, i) ==
    IF i > Len(itemArray)
    THEN [items |-> its, locks |-> lks, nextVersion |-> nv, result |-> "ok"]
    ELSE commitFromKeepVersion(MapSet(its, getKey(itemArray[i]), itemArray[i]),
                               LockSet(lks, getKey(lockArray[i]), lockArray[i]),
                               nv, itemArray, lockArray, i + 1)

RECURSIVE commitFrom(_, _, _, _, _, _)
commitFrom(its, lks, nv, itemArray, lockArray, i) ==
    IF i > Len(itemArray)
    THEN [items |-> its, locks |-> lks, nextVersion |-> nv, result |-> "ok"]
    ELSE LET item == itemArray[i]
             lock == lockArray[i]
             newLock == Lock(lock, ulid(nv), lock.ttl)
         IN  commitFrom(MapSet(its, getKey(item), item),
                        LockSet(lks, getKey(lock), newLock),
                        nv + 1, itemArray, lockArray, i + 1)

\* Faulty variants of MemSetAtomic.
\* Each position is checked and written in turn, so a conflict at a later
\* position leaves the earlier ones written:
RECURSIVE eagerFrom(_, _, _, _, _, _)
eagerFrom(its, lks, nv, itemArray, lockArray, i) ==
    IF i > Len(itemArray)
    THEN [items |-> its, locks |-> lks, nextVersion |-> nv, result |-> "ok"]
    ELSE IF ~(getKey(lockArray[i]) \in DOMAIN lks
              /\ lks[getKey(lockArray[i])].version = lockArray[i].version)
    THEN [items |-> its, locks |-> lks, nextVersion |-> nv, result |-> "RaceCondition"]
    ELSE eagerFrom(MapSet(its, getKey(itemArray[i]), itemArray[i]),
                   LockSet(lks, getKey(lockArray[i]),
                           Lock(lockArray[i], nv, lockArray[i].ttl)),
                   nv + 1, itemArray, lockArray, i + 1)

MemSetAtomicEager(its, lks, nv, itemsArg, locksArg) ==
    IF Len(toArray(itemsArg)) # Len(toArray(locksArg))
    THEN [items |-> its, locks |-> lks, nextVersion |-> nv, result |-> "Error"]
    ELSE eagerFrom(its, lks, nv, toArray(itemsArg), toArray(locksArg), 1)

\* The locks are checked before the lengths are compared:
MemSetAtomicCheckLater(its, lks, nv, itemsArg, locksArg) ==
    IF \E i \in 1..Len(toArray(locksArg)) :
          ~(getKey(toArray(locksArg)[i]) \in DOMAIN lks
            /\ lks[getKey(toArray(locksArg)[i])].version = toArray(locksArg)[i].version)
    THEN [items |-> its, locks |-> lks, nextVersion |-> nv, result |-> "RaceCondition"]
    ELSE IF Len(toArray(itemsArg)) # Len(toArray(locksArg))
    THEN [items |-> its, locks |-> lks, nextVersion |-> nv, result |-> "Error"]
    ELSE commitFrom(its, lks, nv, toArray(itemsArg), toArray(locksArg), 1)

\* A conditional put: an item that is stored already is a conflict
MemSetAtomicIfAbsent(its, lks, nv, itemsArg, locksArg) ==
    IF Len(toArray(itemsArg)) # Len(toArray(locksArg))
    THEN [items |-> its, locks |-> lks, nextVersion |-> nv, result |-> "Error"]
    ELSE IF \/ ~allLocksValid(lks, toArray(locksArg))
            \/ \E i \in 1..Len(toArray(itemsArg)) : MapHas(its, getKey(toArray(itemsArg)[i]))
    THEN [items |-> its, locks |-> lks, nextVersion |-> nv, result |-> "RaceCondition"]
    ELSE commitFrom(its, lks, nv, toArray(itemsArg), toArray(locksArg), 1)

\* A persisted lock admits one item: a lock that comes again in the batch is
\* a conflict
MemSetAtomicOneEach(its, lks, nv, itemsArg, locksArg) ==
    IF Len(toArray(itemsArg)) # Len(toArray(locksArg))
    THEN [items |-> its, locks |-> lks, nextVersion |-> nv, result |-> "Error"]
    ELSE IF \/ ~allLocksValid(lks, toArray(locksArg))
            \/ \E i, j \in 1..Len(toArray(locksArg)) :
                  i # j /\ getKey(toArray(locksArg)[i]) = getKey(toArray(locksArg)[j])
    THEN [items |-> its, locks |-> lks, nextVersion |-> nv, result |-> "RaceCondition"]
    ELSE commitFrom(its, lks, nv, toArray(itemsArg), toArray(locksArg), 1)

MemSetAtomic(its, lks, nv, itemsArg, locksArg) ==
    LET itemArray == toArray(itemsArg)
        lockArray == toArray(locksArg)
    IN  IF Len(itemArray) # Len(lockArray)
        THEN [items |-> its, locks |-> lks, nextVersion |-> nv, result |-> "Error"]
        ELSE IF ~allLocksValid(lks, lockArray)
        THEN [items |-> its, locks |-> lks, nextVersion |-> nv, result |-> "RaceCondition"]
        ELSE commitFrom(its, lks, nv, itemArray, lockArray, 1)

RECURSIVE MemDeleteFrom(_, _, _, _)
MemDeleteFrom(its, lks, keyArray, i) ==
    IF i > Len(keyArray)
    THEN [items |-> its, locks |-> lks]
    ELSE LET k == getKey(keyArray[i])
         IN  MemDeleteFrom(MapDelete(its, k), LockDelete(lks, k), keyArray, i + 1)

MemDelete(its, lks, keysArg) == MemDeleteFrom(its, lks, toArray(keysArg), 1)

-----------------------------------------------------------------------------
(* AtomicMemoryDb.query and stream *)

\* key.split(':'): the part before the first ':' and the rest joined again
firstColon(k) == CHOOSE i \in 1..Len(k) : k[i] = ":" /\ \A j \in 1..(i - 1) : k[j] # ":"
splitPk(k) == SubSeq(k, 1, firstColon(k) - 1)
splitSk(k) == SubSeq(k, firstColon(k) + 1, Len(k))

startsWith(s, p) == Len(p) <= Len(s) /\ SubSeq(s, 1, Len(p)) = p

\* The collation order of the characters used: ':' before '/', punctuation
\* before the digits and the digits before the letters
charRank(c) ==
    LET order == <<":", "/", "0", "1", "2", "3", "4", "5", "6", "7", "8", "9",
                   "a", "b", "c", "d", "e", "f", "g", "h", "i", "j", "k", "l", "m",
                   "n", "o", "p", "q", "r", "s", "t", "u", "v", "w", "x", "y", "z">>
    IN  CHOOSE i \in 1..Len(order) : order[i] = c

RECURSIVE localeCompare(_, _)
localeCompare(a, b) ==
    IF a = <<>> /\ b = <<>> THEN 0
    ELSE IF a = <<>> THEN -1
    ELSE IF b = <<>> THEN 1
    ELSE IF charRank(Head(a)) < charRank(Head(b)) THEN -1
    ELSE IF charRank(Head(a)) > charRank(Head(b)) THEN 1
    ELSE localeCompare(Tail(a), Tail(b))

compareItems(a, b, reverse) ==
    LET comparison == localeCompare(a.sk, b.sk)
    IN  IF reverse THEN 0 - comparison ELSE comparison

\* Array.prototype.sort is stable: x goes after every element that is not greater
RECURSIVE insertSorted(_, _, _)
insertSorted(sorted, x, reverse) ==
    IF sorted = <<>> THEN <<x>>
    ELSE IF compareItems(x, Head(sorted), reverse) < 0
    THEN <<x>> \o sorted
    ELSE <<Head(sorted)>> \o insertSorted(Tail(sorted), x, reverse)

RECURSIVE sortFrom(_, _, _, _)
sortFrom(results, reverse, i, acc) ==
    IF i > Len(results) THEN acc
    ELSE sortFrom(results, reverse, i + 1, insertSorted(acc, results[i], reverse))

sortResults(results, reverse) == sortFrom(results, reverse, 1, <<>>)

applyLimit(results, limit) ==
    IF limit = Undefined \/ limit = 0
    THEN results
    ELSE SubSeq(results, 1, IF limit < Len(results) THEN limit ELSE Len(results))

queryMatches(k, q) ==
    /\ splitPk(k) = q.pk
    /\ (q.sk = <<>> \/ startsWith(splitSk(k), q.sk))

MemQuery(its, q, t) ==
    LET live == SelectSeq(its, LAMBDA e : ~isExpired(e.v.ttl, t))
        hits == SelectSeq(live, LAMBDA e : queryMatches(e.k, q))
        results == [i \in 1..Len(hits) |-> hits[i].v]
    IN  [items |-> live, ret |-> applyLimit(sortResults(results, q.reverse), q.limit)]

\* push(null): the end of the stream
EndOfStream == [end |-> TRUE]

\* A stream that pushes every selected item and forgets the limit
MemStreamReadUnlimited(its, q, t) ==
    LET r == MemQuery(its, [q EXCEPT !.limit = Undefined], t)
    IN  [items |-> r.items, chunks |-> r.ret \o <<EndOfStream>>]

\* read() of the Readable that stream(q) returns: it runs the query on the
\* store as it is at the read, pushes every result and then the end.  The
\* stream has ended when read() returns, so read() runs once.
MemStreamRead(its, q, t) ==
    LET r == MemQuery(its, q, t)
    IN  [items |-> r.items, chunks |-> r.ret \o <<EndOfStream>>]

-----------------------------------------------------------------------------
(* The inputs of the calls *)

KA == Key(<<"a">>, <<"b">>)
KB == Key(<<"a">>, <<"b", ":", "c">>)
KC == Key(<<"a", ":", "b">>, <<"c">>)
Keys == {KA, KB, KC}

PastTtl == Epoch - 1

\* An item without ttl, one whose ttl has passed, one whose ttl is this very
\* second, and one under the key that is filed with KB's
ItemInputs ==
    {Item(KA, 1, Undefined), Item(KA, 2, PastTtl), Item(KB, 1, Epoch), Item(KC, 2, Undefined)}

\* The lock objects a caller passes to setAtomic: the locks that are persisted
\* now, and a lock of KA that carries the version generated last (the
\* persisted one, a stale one, or one of a key that has no lock).
LockInputs(lks, nv) ==
    {lks[k] : k \in DOMAIN lks}
    \cup {Lock(KA, ulid(nv - 1), IF getKey(KA) \in DOMAIN lks THEN lks[getKey(KA)].ttl ELSE Undefined)}

ScalarOrArray(S) == {Scalar(x) : x \in S} \cup {Array(s) : s \in SeqsUpTo(S, MaxBatch)}

QueryInputs == {[pk |-> <<"a">>, sk |-> <<"b">>, reverse |-> TRUE, limit |-> 1]}

NoStream == [none |-> TRUE]

\* The callers of the cache, and a caller that waits for no answer
CacheCallers == {1, 2}
Idle == [idle |-> TRUE]

-----------------------------------------------------------------------------
(* AtomicLRUCache: an LRU memo of CacheSize entries in front of a store.     *)
(* this.cache is a mnemonist LRUCacheWithDelete: get moves the entry it      *)
(* finds to the most recently used place, set of a new key into a full       *)
(* cache evicts the least recently used entry.                               *)

\* `${key.pk}/${key.sk}`
cacheKey(key) == key.pk \o <<"/">> \o key.sk

LruHas(ca, ck) == \E i \in 1..Len(ca) : ca[i].k = ck
LruIndex(ca, ck) == CHOOSE i \in 1..Len(ca) : ca[i].k = ck
LruWithout(ca, ck) == SelectSeq(ca, LAMBDA e : e.k # ck)

\* this.cache.get(cacheKey)
LruGet(ca, ck) ==
    IF LruHas(ca, ck)
    THEN [cache |-> <<ca[LruIndex(ca, ck)]>> \o LruWithout(ca, ck), ret |-> ca[LruIndex(ca, ck)].v]
    ELSE [cache |-> ca, ret |-> Absent]

\* this.cache.set(cacheKey, item)
LruSet(ca, ck, v) ==
    IF LruHas(ca, ck) THEN <<[k |-> ck, v |-> v]>> \o LruWithout(ca, ck)
    ELSE IF Len(ca) < capacity THEN <<[k |-> ck, v |-> v]>> \o ca
    ELSE <<[k |-> ck, v |-> v]>> \o SubSeq(ca, 1, Len(ca) - 1)

\* AtomicLRUCache.get up to its await: a hit returns the memoized item, a
\* miss calls the backend's get, which reads the store before it returns
CacheGetCall(ca, its, key, t) ==
    LET cached == LruGet(ca, cacheKey(key))
        fetched == MemGet(its, key, t)
    IN  IF cached.ret # Absent
        THEN [cache |-> cached.cache, items |-> its, hit |-> TRUE, ret |-> cached.ret, reads |-> 0]
        ELSE [cache |-> cached.cache, items |-> fetched.items, hit |-> FALSE,
              ret |-> fetched.ret, reads |-> 1]

\* A faulty variant of the memoization: it memoizes a result that is absent
CacheGetResumeAlways(ca, key, item) == LruSet(ca, cacheKey(key), item)

\* AtomicLRUCache.get after its await: the cache once the answer is there
CacheGetResume(ca, key, item) ==
    IF item # Absent THEN LruSet(ca, cacheKey(key), item) ELSE ca

\* A get through the cache that nothing interleaves with
CacheGet(ca, its, key, t) ==
    LET c == CacheGetCall(ca, its, key, t)
    IN  [cache |-> IF c.hit THEN c.cache ELSE CacheGetResume(c.cache, key, c.ret),
         items |-> c.items, hit |-> c.hit, ret |-> c.ret, reads |-> c.reads]

\* this.cache.delete(cacheKey)
LruDelete(ca, ck) == LruWithout(ca, ck)

\* forEach(... this.cache.delete(this.getKey(x))) over items or keys
RECURSIVE invalidateFrom(_, _, _)
invalidateFrom(ca, xs, i) ==
    IF i > Len(xs) THEN ca
    ELSE invalidateFrom(LruDelete(ca, cacheKey(xs[i])), xs, i + 1)

\* itemArray.forEach((item) => this.cache.set(this.getKey(item), item))
RECURSIVE memoizeFrom(_, _, _)
memoizeFrom(ca, itemArray, i) ==
    IF i > Len(itemArray) THEN ca
    ELSE memoizeFrom(LruSet(ca, cacheKey(itemArray[i]), itemArray[i]), itemArray, i + 1)

\* this.db.set(items) of the wrapped store: AtomicMemoryDb writes every item;
\* another implementation may throw after it has written the first failAt
\* items of the batch (failAt = Undefined: no failure)
DbSet(its, itemsArg, failAt) ==
    IF failAt = Undefined
    THEN [items |-> MemSet(its, itemsArg), result |-> "ok"]
    ELSE [items |-> MemSet(its, Array(SubSeq(toArray(itemsArg), 1, failAt))), result |-> "Error"]

\* A faulty variant of set: the backend writes and no entry is invalidated
CacheSetCallKeep(ca, its, itemsArg, failAt) ==
    LET w == DbSet(its, itemsArg, failAt)
    IN  [cache |-> ca, items |-> w.items, result |-> w.result]

\* AtomicLRUCache.set up to its await: the entries are invalidated, then the
\* backend writes
CacheSetCall(ca, its, itemsArg, failAt) ==
    LET w == DbSet(its, itemsArg, failAt)
    IN  [cache |-> invalidateFrom(ca, toArray(itemsArg), 1), items |-> w.items, result |-> w.result]

\* A faulty variant of set: it leaves the cache invalidated after the write
CacheSetResumeNothing(ca, itemsArg) == ca

\* AtomicLRUCache.set after its await, when the backend has not thrown
CacheSetResume(ca, itemsArg) == memoizeFrom(ca, toArray(itemsArg), 1)

\* A set through the cache that nothing interleaves with
CacheSet(ca, its, itemsArg, failAt) ==
    LET c == CacheSetCall(ca, its, itemsArg, failAt)
    IN  [cache |-> IF c.result = "ok" THEN CacheSetResume(c.cache, itemsArg) ELSE c.cache,
         items |-> c.items, result |-> c.result]

\* AtomicLRUCache.setAtomic after its await, when the backend has committed
CacheSetAtomicResume(ca, itemsArg) == memoizeFrom(ca, toArray(itemsArg), 1)

\* A setAtomic through the cache that nothing interleaves with: the backend's
\* setAtomic gets the arguments as they are, the cache is written after it
CacheSetAtomic(ca, its, lks, nv, itemsArg, locksArg) ==
    LET r == MemSetAtomic(its, lks, nv, itemsArg, locksArg)
    IN  [cache |-> IF r.result = "ok" THEN CacheSetAtomicResume(ca, itemsArg) ELSE ca,
         items |-> r.items, locks |-> r.locks, nextVersion |-> r.nextVersion,
         result |-> r.result]

\* this.db.delete(keys) of the wrapped store: AtomicMemoryDb deletes every
\* key; another implementation may throw after it has deleted the first
\* failAt keys (failAt = Undefined: no failure)
DbDelete(its, lks, keysArg, failAt) ==
    IF failAt = Undefined
    THEN [items |-> MemDelete(its, lks, keysArg).items,
          locks |-> MemDelete(its, lks, keysArg).locks, result |-> "ok"]
    ELSE LET d == MemDelete(its, lks, Array(SubSeq(toArray(keysArg), 1, failAt)))
         IN  [items |-> d.items, locks |-> d.locks, result |-> "Error"]

\* A faulty variant of delete: the entries are invalidated after the await,
\* which a failing backend does not reach
CacheDeleteAfter(ca, its, lks, keysArg, failAt) ==
    LET d == DbDelete(its, lks, keysArg, failAt)
    IN  [cache |-> IF d.result = "ok" THEN invalidateFrom(ca, toArray(keysArg), 1) ELSE ca,
         items |-> d.items, locks |-> d.locks, result |-> d.result]

\* AtomicLRUCache.delete: the entries are invalidated, then the backend
\* deletes; nothing is left to do after the await
CacheDelete(ca, its, lks, keysArg, failAt) ==
    LET d == DbDelete(its, lks, keysArg, failAt)
    IN  [cache |-> invalidateFrom(ca, toArray(keysArg), 1),
         items |-> d.items, locks |-> d.locks, result |-> d.result]

\* keys.forEach of getMany: a cached key fills its place of results, the
\* others are noted in missingIndices (a hole of results is absent)
RECURSIVE lookupFrom(_, _, _, _, _)
lookupFrom(ca, keys, i, results, missingIndices) ==
    IF i > Len(keys)
    THEN [cache |-> ca, results |-> results, missingIndices |-> missingIndices]
    ELSE LET cached == LruGet(ca, cacheKey(keys[i]))
         IN  IF cached.ret # Absent
             THEN lookupFrom(cached.cache, keys, i + 1, Append(results, cached.ret), missingIndices)
             ELSE lookupFrom(cached.cache, keys, i + 1, Append(results, Absent),
                             Append(missingIndices, i))

\* AtomicLRUCache.getMany up to its await: when keys are missing the backend's
\* getMany is called once, with the missing keys
CacheGetManyCall(ca, its, keys, t) ==
    LET l == lookupFrom(ca, keys, 1, <<>>, <<>>)
        missingKeys == [j \in 1..Len(l.missingIndices) |-> keys[l.missingIndices[j]]]
        fetched == MemGetMany(its, missingKeys, t)
    IN  IF Len(missingKeys) > 0
        THEN [cache |-> l.cache, items |-> fetched.items, results |-> l.results,
              missingIndices |-> l.missingIndices, missingKeys |-> missingKeys,
              dbResults |-> fetched.ret, calls |-> 1]
        ELSE [cache |-> l.cache, items |-> its, results |-> l.results,
              missingIndices |-> <<>>, missingKeys |-> <<>>, dbResults |-> <<>>, calls |-> 0]

\* dbResults.forEach of getMany, after the await
RECURSIVE fillFrom(_, _, _, _, _, _)
fillFrom(ca, results, missingIndices, missingKeys, dbResults, i) ==
    IF i > Len(dbResults)
    THEN [cache |-> ca, ret |-> results]
    ELSE fillFrom(IF dbResults[i] # Absent
                  THEN LruSet(ca, cacheKey(missingKeys[i]), dbResults[i]) ELSE ca,
                  [results EXCEPT ![missingIndices[i]] = dbResults[i]],
                  missingIndices, missingKeys, dbResults, i + 1)

\* A getMany through the cache that nothing interleaves with
CacheGetMany(ca, its, keys, t) ==
    LET c == CacheGetManyCall(ca, its, keys, t)
        f == fillFrom(c.cache, c.results, c.missingIndices, c.missingKeys, c.dbResults, 1)
    IN  [cache |-> f.cache, items |-> c.items, ret |-> f.ret,
         missingKeys |-> c.missingKeys, calls |-> c.calls]

\* AtomicLRUCache.getLock, query and the read of its stream: the backend's
\* A faulty variant of getLock of the cache: locks are memoized like items
CacheGetLockMemo(ca, lks, key, t, nv) ==
    IF LruHas(ca, cacheKey(key)) /\ "version" \in DOMAIN LruGet(ca, cacheKey(key)).ret
    THEN [cache |-> LruGet(ca, cacheKey(key)).cache, locks |-> lks, nextVersion |-> nv,
          ret |-> LruGet(ca, cacheKey(key)).ret]
    ELSE LET r == MemGetLock(lks, key, t, nv)
         IN  [cache |-> LruSet(ca, cacheKey(key), r.ret), locks |-> r.locks,
              nextVersion |-> r.nextVersion, ret |-> r.ret]

\* AtomicLRUCache.getLock: the backend's getLock and nothing else
CacheGetLock(ca, lks, key, t, nv) ==
    LET r == MemGetLock(lks, key, t, nv)
    IN  [cache |-> ca, locks |-> r.locks, nextVersion |-> r.nextVersion, ret |-> r.ret]
\* A faulty variant of query of the cache: a result whose key is cached is
\* answered with the cached item
CacheQueryCached(ca, its, q, t) ==
    LET r == MemQuery(its, q, t)
    IN  [cache |-> ca, items |-> r.items,
         ret |-> [i \in 1..Len(r.ret) |->
                    IF LruHas(ca, cacheKey(KeyOf(r.ret[i])))
                    THEN ca[LruIndex(ca, cacheKey(KeyOf(r.ret[i])))].v
                    ELSE r.ret[i]]]

\* AtomicLRUCache.query: the backend's query and nothing else
CacheQuery(ca, its, q, t) ==
    LET r == MemQuery(its, q, t)
    IN  [cache |-> ca, items |-> r.items, ret |-> r.ret]

\* read() of the Readable that AtomicLRUCache.stream returns, which is the
\* backend's
CacheStreamRead(ca, its, q, t) ==
    LET r == MemStreamRead(its, q, t)
    IN  [cache |-> ca, items |-> r.items, chunks |-> r.chunks]

-----------------------------------------------------------------------------
(* The calls on one AtomicMemoryDb, each an atomic step: no method of the     *)
(* class awaits anything before it has finished with the maps.               *)

callerVars == <<pc, held, outcome, intruded>>
storeVars == <<items, locks, nextVersion, pending, retired>>

\* The versions a step replaces or removes are retired
retire(lks, lks2) ==
    retired \cup {lks[k].version :
                    k \in {x \in DOMAIN lks : x \notin DOMAIN lks2 \/ lks2[x].version # lks[x].version}}

Get(key) ==
    /\ items' = MemGet(items, key, now).items
    /\ UNCHANGED <<locks, now, ticks, nextVersion, pending, retired, callerVars, cacheVars>>

GetMany(keys) ==
    /\ items' = MemGetMany(items, keys, now).items
    /\ UNCHANGED <<locks, now, ticks, nextVersion, pending, retired, callerVars, cacheVars>>

GetLock(key) ==
    LET r == MemGetLock(locks, key, now, nextVersion)
    IN  /\ r.nextVersion <= MaxVersion + 1
        /\ locks' = r.locks
        /\ nextVersion' = r.nextVersion
        /\ retired' = retire(locks, r.locks)
        /\ UNCHANGED <<items, now, ticks, pending, callerVars, cacheVars>>

Set(itemsArg) ==
    /\ items' = MemSet(items, itemsArg)
    /\ UNCHANGED <<locks, now, ticks, nextVersion, pending, retired, callerVars, cacheVars>>

SetAtomic(itemsArg, locksArg) ==
    LET r == MemSetAtomic(items, locks, nextVersion, itemsArg, locksArg)
    IN  /\ r.nextVersion <= MaxVersion + 1
        /\ items' = r.items
        /\ locks' = r.locks
        /\ nextVersion' = r.nextVersion
        /\ retired' = retire(locks, r.locks)
        /\ UNCHANGED <<now, ticks, pending, callerVars, cacheVars>>

Delete(keysArg) ==
    LET r == MemDelete(items, locks, keysArg)
    IN  /\ items' = r.items
        /\ locks' = r.locks
        /\ retired' = retire(locks, r.locks)
        /\ UNCHANGED <<now, ticks, nextVersion, pending, callerVars, cacheVars>>

Query(q) ==
    /\ items' = MemQuery(items, q, now).items
    /\ UNCHANGED <<locks, now, ticks, nextVersion, pending, retired, callerVars, cacheVars>>

\* stream(q) only builds the Readable; its read() runs the query when the
\* consumer first pulls, on the store as it is then.
Stream(q) ==
    /\ pending = NoStream
    /\ pending' = q
    /\ UNCHANGED <<items, locks, now, ticks, nextVersion, retired, callerVars, cacheVars>>

StreamRead ==
    /\ pending # NoStream
    /\ items' = MemStreamRead(items, pending, now).items
    /\ pending' = NoStream
    /\ UNCHANGED <<locks, now, ticks, nextVersion, retired, callerVars, cacheVars>>

Init ==
    /\ items = <<>>
    /\ locks = <<>>
    /\ now = Epoch
    /\ nextVersion = 1
    /\ pending = NoStream
    /\ retired = {}
    /\ cache = <<>>
    /\ fetching = [c \in CacheCallers |-> Idle]
    /\ capacity = CacheSize
    /\ pc = <<>>
    /\ held = <<>>
    /\ outcome = <<>>
    /\ intruded = {}
    /\ ticks = 0

Next ==
    \/ \E key \in Keys : Get(key)
    \/ \E keys \in SeqsUpTo(Keys, MaxBatch) : GetMany(keys)
    \/ \E key \in Keys : GetLock(key)
    \/ \E itemsArg \in ScalarOrArray(ItemInputs) : Set(itemsArg)
    \/ \E itemsArg \in ScalarOrArray(ItemInputs) :
          \E locksArg \in ScalarOrArray(LockInputs(locks, nextVersion)) :
             SetAtomic(itemsArg, locksArg)
    \/ \E keysArg \in ScalarOrArray(Keys) : Delete(keysArg)
    \/ \E q \in QueryInputs : Query(q)
    \/ \E q \in QueryInputs : Stream(q)
    \/ StreamRead

Spec == Init /\ [][Next]_vars

-----------------------------------------------------------------------------
(* The lock manager over time: the clock moves between the calls *)

\* The clock steps: one second, the refresh threshold, and the rest of a
\* lock's lifetime, so that ttl - now meets the threshold exactly
TickSteps == {1, RefreshThreshold, LockTtl - RefreshThreshold}

Tick(d) ==
    /\ ticks < MaxTicks
    /\ ticks' = ticks + 1
    /\ now' = now + d
    /\ UNCHANGED <<storeVars, callerVars, cacheVars>>

\* Every lock object a caller can hold: a key, a version that was generated,
\* and the ttl of the persisted lock or none
IssuedLocks(lks, nv) ==
    {Lock(k, ulid(v), t) :
        k \in Keys, v \in 1..(nv - 1),
        t \in {Undefined} \cup {lks[x].ttl : x \in DOMAIN lks}}

TimeItems == {Item(KA, 1, Undefined)}

NextTime ==
    \/ \E key \in Keys : GetLock(key)
    \/ \E item \in TimeItems : \E lock \in IssuedLocks(locks, nextVersion) :
          SetAtomic(Scalar(item), Scalar(lock))
    \/ \E key \in Keys : Delete(Scalar(key))
    \/ \E d \in TickSteps : Tick(d)

SpecTime == Init /\ [][NextTime]_vars

-----------------------------------------------------------------------------
(* The race of package.json:172-293: callers that each take the lock of one  *)
(* key with getLock and then write one item with setAtomic, while another    *)
(* client writes the same item with set.                                     *)

Callers == 1..NumCallers
ItemKey == KA
LockKey == KB
NoLock == [none |-> TRUE]
IntruderData == {0}

payload(c) == Item(ItemKey, c, Undefined)

CallerGetLock(c) ==
    LET r == MemGetLock(locks, LockKey, now, nextVersion)
    IN  /\ pc[c] = "start"
        /\ locks' = r.locks
        /\ nextVersion' = r.nextVersion
        /\ retired' = retire(locks, r.locks)
        /\ held' = [held EXCEPT ![c] = r.ret]
        /\ pc' = [pc EXCEPT ![c] = "locked"]
        /\ UNCHANGED <<items, now, ticks, pending, outcome, intruded, cacheVars>>

CallerSetAtomic(c) ==
    LET r == MemSetAtomic(items, locks, nextVersion, Scalar(payload(c)), Scalar(held[c]))
    IN  /\ pc[c] = "locked"
        /\ items' = r.items
        /\ locks' = r.locks
        /\ nextVersion' = r.nextVersion
        /\ retired' = retire(locks, r.locks)
        /\ outcome' = [outcome EXCEPT ![c] = r.result]
        /\ pc' = [pc EXCEPT ![c] = "done"]
        /\ UNCHANGED <<now, ticks, pending, held, intruded, cacheVars>>

\* Another client's set on the item key, between a caller's getLock and its setAtomic
IntruderSet(d) ==
    /\ \E c \in Callers : pc[c] = "locked"
    /\ items' = MemSet(items, Scalar(Item(ItemKey, d, Undefined)))
    /\ intruded' = intruded \cup {c \in Callers : pc[c] = "locked"}
    /\ UNCHANGED <<locks, now, ticks, nextVersion, pending, retired, pc, held, outcome, cacheVars>>

InitRace ==
    /\ items = <<>>
    /\ locks = <<>>
    /\ now = Epoch
    /\ nextVersion = 1
    /\ pending = NoStream
    /\ retired = {}
    /\ cache = <<>>
    /\ fetching = [c \in CacheCallers |-> Idle]
    /\ capacity = CacheSize
    /\ pc = [c \in Callers |-> "start"]
    /\ held = [c \in Callers |-> NoLock]
    /\ outcome = [c \in Callers |-> "none"]
    /\ intruded = {}
    /\ ticks = 0

NextRace ==
    \/ \E c \in Callers : CallerGetLock(c)
    \/ \E c \in Callers : CallerSetAtomic(c)
    \/ \E d \in IntruderData : IntruderSet(d)
    \/ \E d \in TickSteps : Tick(d)

SpecRace == InitRace /\ [][NextRace]_vars

-----------------------------------------------------------------------------
(* Properties of setAtomic, over every reachable store and every call *)

\* The calls of setAtomic: an items argument and a locks argument
AtomicInputs == ScalarOrArray(ItemInputs) \X ScalarOrArray(LockInputs(locks, nextVersion))

\* The supplied lock has a persisted lock under its key with exactly its version
matchesPersisted(lks, lock) ==
    \E k \in DOMAIN lks : k = getKey(lock) /\ lks[k].version = lock.version

\* The persisted lock at a key: its presence, version and ttl
lockAt(lks, key) ==
    IF getKey(key) \in DOMAIN lks
    THEN [version |-> lks[getKey(key)].version, ttl |-> lks[getKey(key)].ttl]
    ELSE Absent

\* The versions that are or were persisted
knownVersions == {locks[k].version : k \in DOMAIN locks} \cup retired

\* C2: all-or-nothing on conflict.  For every setAtomic call with equally many
\* items and locks in which at least one supplied lock, at any position, has no
\* persisted lock under its key or a different persisted version, the call
\* fails with RaceCondition and neither the items nor any persisted lock
\* (the validated ones included) change.
C2_AllOrNothing ==
    \A a \in AtomicInputs :
        LET ia == toArray(a[1])
            la == toArray(a[2])
            r == MemSetAtomic(items, locks, nextVersion, a[1], a[2])
        IN  (Len(ia) = Len(la) /\ \E i \in 1..Len(la) : ~matchesPersisted(locks, la[i]))
            => (r.result = "RaceCondition" /\ r.items = items /\ r.locks = locks)

\* A batch of two whose first lock validates and whose second does not is
\* refused, over a store that holds an item and a lock
C2_Witness ==
    \E a \in AtomicInputs :
        LET ia == toArray(a[1])
            la == toArray(a[2])
            r == MemSetAtomic(items, locks, nextVersion, a[1], a[2])
        IN  /\ Len(ia) = 2 /\ Len(la) = 2
            /\ matchesPersisted(locks, la[1]) /\ ~matchesPersisted(locks, la[2])
            /\ items # <<>>
            /\ getKey(ia[1]) \notin MapKeys(items)
            /\ r.result = "RaceCondition" /\ r.items = items /\ r.locks = locks

\* The last position of the batch that is filed under the storage key of position i
lastFiledWith(ia, i) ==
    CHOOSE j \in i..Len(ia) :
        /\ getKey(ia[j]) = getKey(ia[i])
        /\ \A m \in (j + 1)..Len(ia) : getKey(ia[m]) # getKey(ia[i])

\* C3 as stated: whenever every supplied lock of a well-formed call has a
\* persisted lock with exactly the supplied version, setAtomic succeeds, get of
\* every item key of the batch returns the supplied item, and every lock of the
\* batch has a new version.
C3_Original ==
    \A a \in AtomicInputs :
        LET ia == toArray(a[1])
            la == toArray(a[2])
            r == MemSetAtomic(items, locks, nextVersion, a[1], a[2])
        IN  (Len(ia) = Len(la) /\ \A i \in 1..Len(la) : matchesPersisted(locks, la[i]))
            => /\ r.result = "ok"
               /\ \A i \in 1..Len(ia) : MemGet(r.items, KeyOf(ia[i]), now).ret = ia[i]
               /\ \A i \in 1..Len(la) :
                     /\ r.locks[getKey(la[i])].version # la[i].version
                     /\ r.locks[getKey(la[i])].version \notin knownVersions

\* C3, amended: with equally many items and locks, all locks validating,
\* setAtomic succeeds; get of an item key of the batch returns the last item
\* of the batch filed under the same storage key pk:sk, provided that item has
\* no ttl or a ttl that has not passed; every lock of the batch has a version
\* that is new and differs from the supplied one.
C3_Commit ==
    \A a \in AtomicInputs :
        LET ia == toArray(a[1])
            la == toArray(a[2])
            r == MemSetAtomic(items, locks, nextVersion, a[1], a[2])
        IN  (Len(ia) = Len(la) /\ \A i \in 1..Len(la) : matchesPersisted(locks, la[i]))
            => /\ r.result = "ok"
               /\ \A i \in 1..Len(ia) :
                     LET w == ia[lastFiledWith(ia, i)]
                     IN  (w.ttl = Undefined \/ w.ttl >= now)
                         => MemGet(r.items, KeyOf(ia[i]), now).ret = w
               /\ \A i \in 1..Len(la) :
                     /\ r.locks[getKey(la[i])].version # la[i].version
                     /\ r.locks[getKey(la[i])].version \notin knownVersions

\* A batch of two commits under two validating locks; its first item carries a
\* ttl that has passed and is not returned by get, its second one is
C3_Witness ==
    \E a \in AtomicInputs :
        LET ia == toArray(a[1])
            la == toArray(a[2])
            r == MemSetAtomic(items, locks, nextVersion, a[1], a[2])
        IN  /\ Len(ia) = 2 /\ Len(la) = 2
            /\ getKey(la[1]) # getKey(la[2])
            /\ \A i \in 1..2 : matchesPersisted(locks, la[i])
            /\ r.result = "ok"
            /\ ia[1].ttl = PastTtl
            /\ MemGet(r.items, KeyOf(ia[1]), now).ret = Absent
            /\ MemGet(r.items, KeyOf(ia[2]), now).ret = ia[2]
            /\ \A i \in 1..2 : r.locks[getKey(la[i])].version # la[i].version

\* C5: a setAtomic call with a different number of items and locks fails with
\* the plain Error (not RaceCondition) and leaves items and locks as they
\* were, also when supplied locks are stale or missing.
C5_LengthMismatch ==
    \A a \in AtomicInputs :
        LET r == MemSetAtomic(items, locks, nextVersion, a[1], a[2])
        IN  Len(toArray(a[1])) # Len(toArray(a[2]))
            => (r.result = "Error" /\ r.items = items /\ r.locks = locks)

\* One item with two locks, the first persisted and the second stale, is
\* refused with Error
C5_Witness ==
    \E a \in AtomicInputs :
        LET ia == toArray(a[1])
            la == toArray(a[2])
            r == MemSetAtomic(items, locks, nextVersion, a[1], a[2])
        IN  /\ Len(ia) = 1 /\ Len(la) = 2
            /\ matchesPersisted(locks, la[1]) /\ ~matchesPersisted(locks, la[2])
            /\ getKey(la[2]) \in DOMAIN locks
            /\ r.result = "Error" /\ r.items = items /\ r.locks = locks

\* C10: the lock frame.  The persisted lock at key k is left as it is by
\* getLock and delete on every other key, by a setAtomic that fails or names
\* no lock of k, and by a getLock(k) that finds an hour or more remaining; and
\* neither getLock nor setAtomic removes it.
C10_LockFrame ==
    \A k \in Keys :
        /\ \A k2 \in Keys \ {k} :
              /\ lockAt(MemGetLock(locks, k2, now, nextVersion).locks, k) = lockAt(locks, k)
              /\ lockAt(MemDelete(items, locks, Scalar(k2)).locks, k) = lockAt(locks, k)
        /\ \A a \in AtomicInputs :
              LET la == toArray(a[2])
                  r == MemSetAtomic(items, locks, nextVersion, a[1], a[2])
              IN  (r.result # "ok" \/ \A i \in 1..Len(la) : KeyOf(la[i]) # k)
                  => lockAt(r.locks, k) = lockAt(locks, k)
        /\ (lockAt(locks, k) # Absent /\ lockAt(locks, k).ttl - now >= 3600)
              => lockAt(MemGetLock(locks, k, now, nextVersion).locks, k) = lockAt(locks, k)
        /\ lockAt(locks, k) # Absent
              => \A k2 \in Keys :
                    lockAt(MemGetLock(locks, k2, now, nextVersion).locks, k) # Absent

-----------------------------------------------------------------------------
(* Properties of the lock manager, over every reachable store and clock *)

\* The ttl values a caller's lock object can carry
LockTtls == {Undefined} \cup {locks[x].ttl : x \in DOMAIN locks}

\* C4: a superseded lock never validates again.  Once the persisted version at
\* a key has changed away from v (by a successful setAtomic, a getLock refresh,
\* or a delete, with or without re-creation), a setAtomic that supplies v for
\* that key, or for any key, fails with RaceCondition; and a second setAtomic with the same lock
\* object right after a successful one fails with RaceCondition.
C4_SupersededNeverValidates ==
    /\ \A v \in retired : \A key \in Keys : \A item \in TimeItems : \A t \in LockTtls :
          MemSetAtomic(items, locks, nextVersion,
                       Scalar(item), Scalar(Lock(key, v, t))).result = "RaceCondition"
    /\ \A lock \in IssuedLocks(locks, nextVersion) : \A item \in TimeItems :
          LET r == MemSetAtomic(items, locks, nextVersion, Scalar(item), Scalar(lock))
          IN  r.result = "ok"
              => MemSetAtomic(r.items, r.locks, r.nextVersion,
                              Scalar(item), Scalar(lock)).result = "RaceCondition"

\* Three versions have been superseded, by a setAtomic, by a refresh after
\* the clock moved and by a delete; the key has a lock again, and a setAtomic
\* with any of the three is refused
C4_Witness ==
    \E k \in DOMAIN locks :
        /\ Cardinality(retired) >= 3
        /\ ticks > 0
        /\ locks[k].ttl = now + LockTtl
        /\ \A v \in retired :
              MemSetAtomic(items, locks, nextVersion, Scalar(Item(KA, 1, Undefined)),
                           Scalar(Lock(locks[k], v, locks[k].ttl))).result = "RaceCondition"

\* C6: idempotent lock reads.  For every key, when a second getLock follows a
\* first one with nothing in between but the clock, and at least one hour is
\* left before the ttl of the lock at the second call, the second call returns
\* the version and the ttl the first returned and writes nothing.
C6_IdempotentGetLock ==
    \A key \in Keys : \A d \in {0} \cup TickSteps :
        LET r1 == MemGetLock(locks, key, now, nextVersion)
            r2 == MemGetLock(r1.locks, key, now + d, r1.nextVersion)
        IN  r1.ret.ttl - (now + d) >= 3600
            => /\ r2.ret.version = r1.ret.version
               /\ r2.ret.ttl = r1.ret.ttl
               /\ r2.locks = r1.locks
               /\ r2.nextVersion = r1.nextVersion

\* A lock that replaced an earlier one has exactly one hour left, and getLock
\* returns it as it is, twice
C6_Witness ==
    \E key \in Keys :
        LET r1 == MemGetLock(locks, key, now, nextVersion)
            r2 == MemGetLock(r1.locks, key, now, r1.nextVersion)
        IN  /\ lockAt(locks, key) # Absent
            /\ retired # {}
            /\ locks[getKey(key)].ttl - now = 3600
            /\ r1.ret = locks[getKey(key)] /\ r2.ret = r1.ret /\ r2.locks = locks

\* C7: the refresh boundary.  For a persisted lock with ttl - now >= 3600
\* getLock returns it and changes nothing; for a persisted lock with
\* ttl - now < 3600, a ttl in the past included, getLock returns and persists a
\* lock with a version different from the old one and ttl = now + 86400.
C7_RefreshBoundary ==
    \A key \in Keys :
        LET k == getKey(key)
            r == MemGetLock(locks, key, now, nextVersion)
        IN  (k \in DOMAIN locks /\ locks[k].ttl # Undefined)
            => IF locks[k].ttl - now >= 3600
               THEN r.ret = locks[k] /\ r.locks = locks
               ELSE /\ r.ret.version # locks[k].version
                    /\ r.ret.ttl = now + 86400
                    /\ lockAt(r.locks, key) = [version |-> r.ret.version, ttl |-> r.ret.ttl]
                    /\ \A x \in DOMAIN locks \ {k} : r.locks[x] = locks[x]

\* Two locks at once: one with exactly an hour left, which getLock returns,
\* and one with a second less, which getLock replaces
C7_Witness ==
    \E k1, k2 \in Keys :
        LET r1 == MemGetLock(locks, k1, now, nextVersion)
            r2 == MemGetLock(locks, k2, now, nextVersion)
        IN  /\ lockAt(locks, k1) # Absent /\ lockAt(locks, k2) # Absent
            /\ locks[getKey(k1)].ttl - now = 3600
            /\ locks[getKey(k2)].ttl - now = 3599
            /\ r1.ret = locks[getKey(k1)] /\ r1.locks = locks
            /\ r2.ret.version # locks[getKey(k2)].version /\ r2.ret.ttl = now + 86400

\* C8: the create path.  getLock on a key without persisted lock returns a
\* lock with a version that was never persisted and ttl = now + 86400; after
\* any getLock the persisted lock at the key has the version and the ttl of the
\* lock that was returned, and a setAtomic that supplies the returned lock
\* right away succeeds.
C8_CreateAndUse ==
    \A key \in Keys :
        LET r == MemGetLock(locks, key, now, nextVersion)
        IN  /\ getKey(key) \notin DOMAIN locks
               => (r.ret.version \notin knownVersions /\ r.ret.ttl = now + 86400)
            /\ lockAt(r.locks, key) = [version |-> r.ret.version, ttl |-> r.ret.ttl]
            /\ \A item \in TimeItems :
                  MemSetAtomic(items, r.locks, r.nextVersion,
                               Scalar(item), Scalar(r.ret)).result = "ok"

\* A key whose lock was deleted has none; getLock creates one, and the
\* setAtomic that supplies it commits
C8_Witness ==
    \E key \in Keys :
        LET r == MemGetLock(locks, key, now, nextVersion)
        IN  /\ getKey(key) \notin DOMAIN locks
            /\ retired # {}
            /\ ticks > 0
            /\ r.ret.ttl = now + 86400
            /\ lockAt(r.locks, key) = [version |-> r.ret.version, ttl |-> r.ret.ttl]
            /\ MemSetAtomic(items, r.locks, r.nextVersion,
                            Scalar(Item(KA, 1, Undefined)), Scalar(r.ret)).result = "ok"

-----------------------------------------------------------------------------
(* Properties of the race *)

RaceSettled == \A c \in Callers : pc[c] = "done"

SameVersion == \A c, d \in Callers : held[c] # NoLock /\ held[d] # NoLock
                                     /\ held[c].version = held[d].version

\* C1: race exclusivity.  When all callers got the same version from getLock
\* and each has called setAtomic with its lock, nothing else having acted on
\* the store, exactly one call succeeded, every other one failed with
\* RaceCondition, and the item stored is the payload of the one that succeeded.
C1_RaceExclusive ==
    (RaceSettled /\ SameVersion /\ intruded = {})
    => \E w \in Callers :
          /\ outcome[w] = "ok"
          /\ \A c \in Callers \ {w} : outcome[c] = "RaceCondition"
          /\ MemGet(items, ItemKey, now).ret = payload(w)

\* All callers held the same version; the last caller won and the others lost
C1_Witness ==
    /\ RaceSettled /\ SameVersion /\ intruded = {}
    /\ outcome[NumCallers] = "ok"
    /\ \A c \in Callers \ {NumCallers} : outcome[c] = "RaceCondition"
    /\ MemGet(items, ItemKey, now).ret = payload(NumCallers)

\* set writes its item whatever the locks are
SetWrites ==
    \A d \in IntruderData :
        MemGet(MemSet(items, Scalar(Item(ItemKey, d, Undefined))), ItemKey, now).ret
        = Item(ItemKey, d, Undefined)

\* C9: set is unconditional and invisible to the locking protocol.  set writes
\* its item in every state of the locks and changes no persisted lock; a
\* caller's setAtomic whose lock still matches the persisted one succeeds, also
\* after a set on the item key, and leaves the caller's payload stored.
C9_SetInvisible ==
    /\ []SetWrites
    /\ [][/\ \A d \in IntruderData : IntruderSet(d) => locks' = locks
          /\ \A c \in Callers :
                (CallerSetAtomic(c) /\ matchesPersisted(locks, held[c]))
                => (outcome'[c] = "ok" /\ MemGet(items', ItemKey, now').ret = payload(c))]_vars

\* A set was made while the caller held its lock, and the caller's setAtomic
\* succeeded and stored its payload over the value of the set
C9_Witness ==
    \E c \in Callers :
        /\ c \in intruded
        /\ outcome[c] = "ok"
        /\ MemGet(items, ItemKey, now).ret = payload(c)

-----------------------------------------------------------------------------
(* The ttl of a lock in the commit protocol, and the identity of keys *)

\* C11: a successful setAtomic keeps each lock's key and ttl.  The lock
\* persisted after the commit has the key and the ttl of the lock that was
\* persisted and validated before the call, whatever ttl the supplied lock
\* object carries; only the version changes.
C11_KeepsTtl ==
    \A lock \in IssuedLocks(locks, nextVersion) : \A item \in TimeItems :
        LET r == MemSetAtomic(items, locks, nextVersion, Scalar(item), Scalar(lock))
            k == getKey(lock)
        IN  r.result = "ok"
            => /\ r.locks[k].ttl = locks[k].ttl
               /\ KeyOf(r.locks[k]) = KeyOf(locks[k])
               /\ r.locks[k].version # locks[k].version

\* C12: a lock whose ttl has passed is absent for the commit protocol.  A
\* setAtomic that supplies a lock whose persisted counterpart has a ttl in the
\* past fails with RaceCondition and writes nothing, also when the supplied
\* version is the persisted one.
C12_ExpiredLockRefused ==
    \A lock \in IssuedLocks(locks, nextVersion) : \A item \in TimeItems :
        LET r == MemSetAtomic(items, locks, nextVersion, Scalar(item), Scalar(lock))
            k == getKey(lock)
        IN  (k \in DOMAIN locks /\ locks[k].ttl # Undefined /\ locks[k].ttl < now)
            => (r.result = "RaceCondition" /\ r.items = items /\ r.locks = locks)

\* C13: an item key identifies one stored entity.  For two keys that differ in
\* pk or in sk, set, setAtomic and delete on the one leave what get returns
\* for the other as it was, and getLock, setAtomic and delete on the one leave
\* the lock of the other as it was.
C13_KeyIdentifiesEntity ==
    \A k1 \in Keys : \A k2 \in Keys \ {k1} :
        /\ \A item \in {x \in ItemInputs : KeyOf(x) = k1} :
              MemGet(MemSet(items, Scalar(item)), k2, now).ret = MemGet(items, k2, now).ret
        /\ MemGet(MemDelete(items, locks, Scalar(k1)).items, k2, now).ret
              = MemGet(items, k2, now).ret
        /\ \A a \in AtomicInputs :
              LET r == MemSetAtomic(items, locks, nextVersion, a[1], a[2])
              IN  (\A i \in 1..Len(toArray(a[1])) : KeyOf(toArray(a[1])[i]) = k1)
                  => MemGet(r.items, k2, now).ret = MemGet(items, k2, now).ret
        /\ lockAt(MemGetLock(locks, k1, now, nextVersion).locks, k2) = lockAt(locks, k2)
        /\ lockAt(MemDelete(items, locks, Scalar(k1)).locks, k2) = lockAt(locks, k2)

-----------------------------------------------------------------------------
(* The reads of the item store: get, getMany, query and stream over a store   *)
(* that holds items of two partitions, while the clock moves by seconds       *)

KD == Key(<<"a">>, <<"c">>)
KE == Key(<<"b">>, <<"b">>)
\* A key that no call ever writes
KN == Key(<<"c">>, <<"a">>)
ReadKeys == {KA, KB, KC, KD, KE, KN}

\* An item without ttl, one that expires while the clock moves, one whose ttl
\* is 0, one whose partition key contains ':', and one of another partition
ReadItems ==
    {Item(KA, 1, Undefined), Item(KB, 2, Epoch + 1), Item(KD, 3, 0),
     Item(KC, 4, Undefined), Item(KE, 5, Undefined)}

ReadPks == {<<"a">>, <<"a", ":", "b">>, <<"b">>}
ReadPrefixes == {<<>>, <<"b">>, <<"c">>, <<"b", ":">>, <<"a">>}
LimitInputs == {Undefined, 0, 1, 2}

ReadQueries ==
    [pk : ReadPks, sk : ReadPrefixes, reverse : BOOLEAN, limit : LimitInputs]

\* The queries that are opened as streams
StreamQueries ==
    {q \in ReadQueries : q.pk = <<"a">> /\ q.sk = <<>> /\ q.limit \in {Undefined, 1}}

NextRead ==
    \/ \E item \in ReadItems : Set(Scalar(item))
    \/ \E key \in ReadKeys : Delete(Scalar(key))
    \/ \E key \in ReadKeys : Get(key)
    \/ \E keys \in SeqsUpTo(ReadKeys, MaxBatch) : GetMany(keys)
    \/ \E q \in ReadQueries : Query(q)
    \/ \E q \in StreamQueries : Stream(q)
    \/ StreamRead
    \/ Tick(1)

SpecRead == Init /\ [][NextRead]_vars

\* The entries of the item map, as the items they hold
Stored == {items[i].v : i \in 1..Len(items)}

\* C14: getMany preserves length and order.  The result has one element per
\* requested key, and element i is what get returns for the i-th key (the
\* item, or absent), also for keys never written and for repeated keys.
C14_GetManyOrder ==
    \A keys \in SeqsUpTo(ReadKeys, MaxBatch) :
        LET r == MemGetMany(items, keys, now)
        IN  /\ Len(r.ret) = Len(keys)
            /\ \A i \in 1..Len(keys) : r.ret[i] = MemGet(items, keys[i], now).ret

\* A getMany of a key never written followed by a stored key answers absent
\* and then the item; a repeated stored key answers the item twice.
C14_Witness ==
    /\ MemGet(items, KA, now).ret = Item(KA, 1, Undefined)
    /\ MemGetMany(items, <<KN, KA>>, now).ret = <<Absent, Item(KA, 1, Undefined)>>
    /\ MemGetMany(items, <<KA, KA>>, now).ret
          = <<Item(KA, 1, Undefined), Item(KA, 1, Undefined)>>
    /\ \E i \in 1..Len(items) : items[i].v = Item(KB, 2, Epoch + 1)
    /\ MemGetMany(items, <<KB, KA>>, now).ret = <<Absent, Item(KA, 1, Undefined)>>

\* The items of a sequence of results
Listed(ret) == {ret[i] : i \in 1..Len(ret)}

\* C15: expired items are absent.  For an item stored with a ttl (any
\* non-negative number of seconds) that is earlier than the current time, get
\* and getMany return absent for its key and no query lists it; an item with
\* no ttl or with a ttl that is not in the past is returned as stored.
C15_ExpiredAbsent ==
    \A x \in Stored :
        IF x.ttl # Undefined /\ x.ttl < now
        THEN /\ MemGet(items, KeyOf(x), now).ret = Absent
             /\ MemGetMany(items, <<KeyOf(x)>>, now).ret = <<Absent>>
             /\ \A q \in ReadQueries : x \notin Listed(MemQuery(items, q, now).ret)
        ELSE /\ MemGet(items, KeyOf(x), now).ret = x
             /\ MemGetMany(items, <<KeyOf(x)>>, now).ret = <<x>>

\* C16: query selection.  Without a limit, query lists each stored item that
\* the store holds as not expired, whose partition key is the query's pk and
\* whose sort key starts with the query's prefix, once, and no other item; no
\* prefix selects the whole partition.  The keys may contain ':'.
C16_Selection ==
    \A q \in {x \in ReadQueries : x.limit = Undefined} :
        LET ret == MemQuery(items, q, now).ret
            selected == {x \in Stored : /\ ~isExpired(x.ttl, now)
                                        /\ x.pk = q.pk
                                        /\ startsWith(x.sk, q.sk)}
        IN  Listed(ret) = selected /\ Len(ret) = Cardinality(selected)

\* The ordered selection of a query: what it returns when no limit is given
Ordered(q) == MemQuery(items, [q EXCEPT !.limit = Undefined], now).ret

\* C17: query limit.  With a limit, 0 included, query returns at most limit
\* items, the first limit items of the ordered selection; without a limit it
\* returns the whole ordered selection.
C17_Limit ==
    \A q \in ReadQueries :
        LET ret == MemQuery(items, q, now).ret
            all == Ordered(q)
        IN  IF q.limit = Undefined
            THEN ret = all
            ELSE /\ Len(ret) <= q.limit
                 /\ ret = SubSeq(all, 1, IF q.limit < Len(all) THEN q.limit ELSE Len(all))

\* A sequence read backwards
Backwards(s) == [i \in 1..Len(s) |-> s[Len(s) + 1 - i]]

\* C18: query ordering.  Before the limit is applied the result is sorted by
\* sort key, ascending when reverse is not set and descending when it is, and
\* the reverse result is the ascending result read backwards.
C18_Ordering ==
    \A q \in {x \in ReadQueries : x.limit = Undefined /\ ~x.reverse} :
        LET asc == Ordered(q)
            desc == Ordered([q EXCEPT !.reverse = TRUE])
        IN  /\ \A i \in 1..Len(asc) : \A j \in i..Len(asc) :
                  localeCompare(asc[i].sk, asc[j].sk) <= 0
            /\ \A i \in 1..Len(desc) : \A j \in i..Len(desc) :
                  localeCompare(desc[i].sk, desc[j].sk) >= 0
            /\ desc = Backwards(asc)

\* C19: stream is query delivered incrementally.  For every query, the
\* chunks a stream of it emits when it is read are the items query returns on
\* the store of that moment, in the same order and cut by the same limit,
\* followed by the end of the stream and by nothing else; reading leaves the
\* store as query leaves it.
C19_StreamIsQuery ==
    \A q \in ReadQueries :
        LET s == MemStreamRead(items, q, now)
            r == MemQuery(items, q, now)
        IN  /\ Len(s.chunks) = Len(r.ret) + 1
            /\ SubSeq(s.chunks, 1, Len(r.ret)) = r.ret
            /\ s.chunks[Len(s.chunks)] = EndOfStream
            /\ \A i \in 1..Len(r.ret) : s.chunks[i] # EndOfStream
            /\ s.items = r.items

\* A stream with limit 1 is open over a partition that holds several live
\* items and an expired one; when read it emits the first item and the end.
C19_Witness ==
    /\ pending # NoStream
    /\ pending.limit = 1
    /\ Len(Ordered(pending)) >= 2
    /\ \E i \in 1..Len(items) : isExpired(items[i].v.ttl, now)
    /\ MemStreamRead(items, pending, now).chunks = <<Ordered(pending)[1], EndOfStream>>
    /\ MemStreamRead(items, pending, now).items # items

-----------------------------------------------------------------------------
(* Reads through an AtomicLRUCache in front of the store, with writes that    *)
(* go to the store directly                                                   *)

\* Two keys whose cache keys are the same string, a/b/c
KS == Key(<<"a">>, <<"b", "/", "c">>)
KT == Key(<<"a", "/", "b">>, <<"c">>)
CacheKeys == {KA, KS, KT, KE}

CacheItems ==
    {Item(KA, 1, Undefined), Item(KA, 2, Undefined), Item(KS, 3, Undefined),
     Item(KT, 4, Undefined), Item(KE, 5, Undefined)}

\* get of the cache up to its await; a miss leaves the caller waiting with
\* the backend's answer
CacheGetStart(c, key) ==
    LET r == CacheGetCall(cache, items, key, now)
    IN  /\ fetching[c] = Idle
        /\ cache' = r.cache
        /\ items' = r.items
        /\ fetching' = IF r.hit THEN fetching
                       ELSE [fetching EXCEPT ![c] = [key |-> key, item |-> r.ret]]
        /\ UNCHANGED <<locks, now, ticks, nextVersion, pending, retired, callerVars, capacity>>

\* get of the cache after its await
CacheGetEnd(c) ==
    /\ fetching[c] # Idle
    /\ "item" \in DOMAIN fetching[c]
    /\ cache' = CacheGetResume(cache, fetching[c].key, fetching[c].item)
    /\ fetching' = [fetching EXCEPT ![c] = Idle]
    /\ UNCHANGED <<storeVars, now, ticks, callerVars, capacity>>

NextCache ==
    \/ \E c \in CacheCallers : \E key \in CacheKeys : CacheGetStart(c, key)
    \/ \E c \in CacheCallers : CacheGetEnd(c)
    \/ \E item \in CacheItems : Set(Scalar(item))
    \/ \E key \in CacheKeys : Delete(Scalar(key))

\* new AtomicLRUCache(db, cacheSize) over an empty store, for every capacity
InitCache ==
    /\ items = <<>>
    /\ locks = <<>>
    /\ now = Epoch
    /\ nextVersion = 1
    /\ pending = NoStream
    /\ retired = {}
    /\ cache = <<>>
    /\ fetching = [c \in CacheCallers |-> Idle]
    /\ capacity \in 1..CacheSize
    /\ pc = <<>>
    /\ held = <<>>
    /\ outcome = <<>>
    /\ intruded = {}
    /\ ticks = 0

SpecCache == InitCache /\ [][NextCache]_vars

\* C20: cache get.  A hit returns the memoized item and reads nothing from the
\* backend; a miss reads the backend once and memoizes the item only if it
\* was found; no entry of the cache is an absent result; and after a get
\* that found nothing, an item written to the backend directly is what the
\* next get through the cache reads and returns.
C20_CacheGet ==
    /\ \A i \in 1..Len(cache) : cache[i].v # Absent
    /\ \A c \in CacheCallers :
          (fetching[c] # Idle /\ fetching[c].item = Absent)
          => CacheGetResume(cache, fetching[c].key, fetching[c].item) = cache
    /\ \A key \in CacheKeys :
          LET ck == cacheKey(key)
              c == CacheGetCall(cache, items, key, now)
              after == CacheGetResume(c.cache, key, c.ret)
              g == CacheGet(cache, items, key, now)
          IN  /\ LruHas(cache, ck)
                 => /\ c.hit /\ c.reads = 0 /\ c.items = items
                    /\ c.ret = cache[LruIndex(cache, ck)].v
              /\ ~LruHas(cache, ck)
                 => /\ ~c.hit /\ c.reads = 1 /\ c.cache = cache
                    /\ c.ret = MemGet(items, key, now).ret
                    /\ IF c.ret = Absent THEN after = cache
                       ELSE LruHas(after, ck) /\ LruGet(after, ck).ret = c.ret
              /\ (~g.hit /\ g.ret = Absent)
                 => \A x \in {y \in CacheItems : KeyOf(y) = key} :
                       LET next == CacheGet(g.cache, MemSet(g.items, Scalar(x)), key, now)
                       IN  ~next.hit /\ next.reads = 1 /\ next.ret = x

\* One key is memoized and a get of it is a hit; a get of another key found
\* nothing and is waiting, and its item has since been written to the backend.
C20_Witness ==
    /\ LruHas(cache, cacheKey(KA))
    /\ CacheGetCall(cache, items, KA, now).hit
    /\ \E c \in CacheCallers :
          /\ fetching[c] # Idle
          /\ fetching[c].item = Absent
          /\ fetching[c].key = KE
          /\ MemGet(items, KE, now).ret = Item(KE, 5, Undefined)
          /\ ~LruHas(cache, cacheKey(KE))

-----------------------------------------------------------------------------
(* Every method of an AtomicLRUCache, called by one caller, one call at a     *)
(* time and each split at its await, with writes that go to the store          *)
(* directly between the calls                                                  *)

OpsCallers == {1}
OpsKeys == {KA, KS, KT}
OpsItems ==
    {Item(KA, 1, Undefined), Item(KA, 2, Undefined), Item(KS, 3, Undefined),
     Item(KT, 4, Undefined)}

\* Where the backend's set or delete may throw: nowhere, or after some items
\* of the batch
FailPoints(itemsArg) == {Undefined} \cup 0..(Len(toArray(itemsArg)) - 1)

\* No call of the cache is waiting for the backend
Quiet == \A c \in CacheCallers : fetching[c] = Idle

OpsQueries == {[pk |-> <<"a">>, sk |-> <<>>, reverse |-> FALSE, limit |-> Undefined]}

CacheGetManyStart(c, keys) ==
    LET r == CacheGetManyCall(cache, items, keys, now)
    IN  /\ fetching[c] = Idle
        /\ cache' = r.cache
        /\ items' = r.items
        /\ fetching' = IF r.calls = 0 THEN fetching
                       ELSE [fetching EXCEPT ![c] =
                               [results |-> r.results, missingIndices |-> r.missingIndices,
                                missingKeys |-> r.missingKeys, dbResults |-> r.dbResults]]
        /\ UNCHANGED <<locks, now, ticks, nextVersion, pending, retired, callerVars, capacity>>

CacheGetManyEnd(c) ==
    /\ fetching[c] # Idle
    /\ "dbResults" \in DOMAIN fetching[c]
    /\ cache' = fillFrom(cache, fetching[c].results, fetching[c].missingIndices,
                         fetching[c].missingKeys, fetching[c].dbResults, 1).cache
    /\ fetching' = [fetching EXCEPT ![c] = Idle]
    /\ UNCHANGED <<storeVars, now, ticks, callerVars, capacity>>

\* set of the cache up to its await; when the backend throws the call is over
CacheSetStart(c, itemsArg, failAt) ==
    LET r == CacheSetCall(cache, items, itemsArg, failAt)
    IN  /\ fetching[c] = Idle
        /\ cache' = r.cache
        /\ items' = r.items
        /\ fetching' = IF r.result = "ok"
                       THEN [fetching EXCEPT ![c] = [itemsArg |-> itemsArg]]
                       ELSE fetching
        /\ UNCHANGED <<locks, now, ticks, nextVersion, pending, retired, callerVars, capacity>>

CacheSetEnd(c) ==
    /\ fetching[c] # Idle
    /\ "itemsArg" \in DOMAIN fetching[c]
    /\ cache' = CacheSetResume(cache, fetching[c].itemsArg)
    /\ fetching' = [fetching EXCEPT ![c] = Idle]
    /\ UNCHANGED <<storeVars, now, ticks, callerVars, capacity>>

\* delete of the cache: nothing is left to do after its await
CacheDeleteCall(keysArg, failAt) ==
    LET r == CacheDelete(cache, items, locks, keysArg, failAt)
    IN  /\ cache' = r.cache
        /\ items' = r.items
        /\ locks' = r.locks
        /\ retired' = retire(locks, r.locks)
        /\ UNCHANGED <<now, ticks, nextVersion, pending, callerVars, fetching, capacity>>

CacheQueryCall(q) ==
    /\ items' = CacheQuery(cache, items, q, now).items
    /\ cache' = CacheQuery(cache, items, q, now).cache
    /\ UNCHANGED <<locks, now, ticks, nextVersion, pending, retired, callerVars,
                   fetching, capacity>>

\* stream of the cache returns the backend's Readable
CacheStreamCall(q) ==
    /\ pending = NoStream
    /\ pending' = q
    /\ UNCHANGED <<items, locks, now, ticks, nextVersion, retired, callerVars, cacheVars>>

CacheStreamReadCall ==
    /\ pending # NoStream
    /\ items' = CacheStreamRead(cache, items, pending, now).items
    /\ cache' = CacheStreamRead(cache, items, pending, now).cache
    /\ pending' = NoStream
    /\ UNCHANGED <<locks, now, ticks, nextVersion, retired, callerVars, fetching, capacity>>

NextCacheOps ==
    \/ \E c \in OpsCallers : \E key \in OpsKeys : CacheGetStart(c, key)
    \/ \E c \in OpsCallers : CacheGetEnd(c)
    \/ \E c \in OpsCallers : \E keys \in SeqsUpTo(OpsKeys, MaxBatch) : CacheGetManyStart(c, keys)
    \/ \E c \in OpsCallers : CacheGetManyEnd(c)
    \/ \E c \in OpsCallers : \E itemsArg \in ScalarOrArray(OpsItems) :
          \E failAt \in FailPoints(itemsArg) : CacheSetStart(c, itemsArg, failAt)
    \/ \E c \in OpsCallers : CacheSetEnd(c)
    \/ Quiet /\ \E keysArg \in ScalarOrArray(OpsKeys) :
          \E failAt \in FailPoints(keysArg) : CacheDeleteCall(keysArg, failAt)
    \/ Quiet /\ \E q \in OpsQueries : CacheQueryCall(q)
    \/ Quiet /\ \E q \in OpsQueries : CacheStreamCall(q)
    \/ Quiet /\ CacheStreamReadCall
    \/ Quiet /\ \E item \in OpsItems : Set(Scalar(item))
    \/ Quiet /\ \E key \in OpsKeys : Delete(Scalar(key))

SpecCacheOps == InitCache /\ [][NextCacheOps]_vars

\* The places of a batch whose storage key does not come again later in the
\* batch: the writes that the Map still holds when the loop of set has ended
LastOfKey(itemArray) ==
    {i \in 1..Len(itemArray) :
        \A j \in (i + 1)..Len(itemArray) : getKey(itemArray[j]) # getKey(itemArray[i])}

\* C21: cache set coherence.  After a set through the cache has completed, the
\* backend holds every item of the batch, and a get through the cache of any
\* of its keys is a hit that returns the value that was set, without a
\* backend read, also after the backend was written or deleted directly; a
\* later set of the key through the cache replaces the value.
C21_SetCoherence ==
    Quiet =>
    \A itemsArg \in ScalarOrArray(OpsItems) :
        LET s == CacheSet(cache, items, itemsArg, Undefined)
            itemArray == toArray(itemsArg)
        IN  \A i \in LastOfKey(itemArray) :
               LET item == itemArray[i]
                   g == CacheGet(s.cache, s.items, KeyOf(item), now)
               IN  /\ MemGet(s.items, KeyOf(item), now).ret = item
                   /\ g.hit /\ g.reads = 0 /\ g.ret = item
                   /\ \A x \in OpsItems :
                         CacheGet(s.cache, MemSet(s.items, Scalar(x)), KeyOf(item), now).ret = item
                   /\ CacheGet(s.cache, MemDelete(s.items, locks, Scalar(KeyOf(item))).items,
                               KeyOf(item), now).ret = item
                   /\ \A y \in {x \in OpsItems : KeyOf(x) = KeyOf(item)} :
                         LET s2 == CacheSet(s.cache, s.items, Scalar(y), Undefined)
                         IN  CacheGet(s2.cache, s2.items, KeyOf(item), now).ret = y

\* The batches of the properties: the items of the calls, an item whose ttl
\* has passed, and items of the two keys filed under the storage key a:b:c
SetItems == OpsItems \cup {Item(KB, 5, PastTtl), Item(KC, 6, Undefined)}

\* The last position of the batch that has the cache key of position i
lastCachedWith(ia, i) ==
    CHOOSE j \in i..Len(ia) :
        /\ cacheKey(ia[j]) = cacheKey(ia[i])
        /\ \A m \in (j + 1)..Len(ia) : cacheKey(ia[m]) # cacheKey(ia[i])

cacheKeysOf(xs) == {cacheKey(xs[i]) : i \in 1..Len(xs)}

\* C21, amended: a set through the cache that no other call of the cache
\* overlaps and whose backend write does not fail leaves in the store, under
\* the storage key of each item, the last item of the batch with that storage
\* key; when the batch has no more distinct cache
\* keys pk/sk than the capacity, a get through the cache of a key of the batch
\* is a hit without backend read that returns the last item of the batch with
\* the same cache key, also after the store was written or deleted directly;
\* a later set through the cache under that cache key replaces the value.
C21_SetFits ==
    Quiet =>
    \A itemsArg \in ScalarOrArray(SetItems) :
        LET s == CacheSet(cache, items, itemsArg, Undefined)
            ia == toArray(itemsArg)
        IN  /\ s.result = "ok"
            /\ \A i \in 1..Len(ia) : MapGet(s.items, getKey(ia[i])) = ia[lastFiledWith(ia, i)]
            /\ Cardinality(cacheKeysOf(ia)) <= capacity
               => \A i \in 1..Len(ia) :
                     LET w == ia[lastCachedWith(ia, i)]
                         k == KeyOf(ia[i])
                         g == CacheGet(s.cache, s.items, k, now)
                     IN  /\ g.hit /\ g.reads = 0 /\ g.ret = w /\ g.items = s.items
                         /\ \A x \in SetItems :
                               CacheGet(s.cache, MemSet(s.items, Scalar(x)), k, now).ret = w
                         /\ CacheGet(s.cache, MemDelete(s.items, locks, Scalar(k)).items,
                                     k, now).ret = w
                         /\ \A y \in {x \in SetItems : cacheKey(x) = cacheKey(k)} :
                               LET s2 == CacheSet(s.cache, s.items, Scalar(y), Undefined)
                               IN  CacheGet(s2.cache, s2.items, k, now).ret = y

\* The cache of capacity 2 is as a set of two items leaves it, the caller is
\* idle, and the store holds another value of the first key: the get through
\* the cache is a hit that returns the value that was set.
C21_Witness ==
    /\ capacity = 2
    /\ fetching[1] = Idle
    /\ CacheSet(cache, items, Array(<<Item(KA, 2, Undefined), Item(KS, 3, Undefined)>>),
                Undefined).cache = cache
    /\ MemGet(items, KA, now).ret = Item(KA, 1, Undefined)
    /\ CacheGet(cache, items, KA, now).hit
    /\ CacheGet(cache, items, KA, now).ret = Item(KA, 2, Undefined)

\* C22: invalidate before write.  When the backend's set throws, after any
\* part of the batch was written, the set through the cache fails with that
\* error, the store holds the part that was written, no key of the batch has
\* an entry in the cache, the other entries are as they were, and the next
\* get of a key of the batch is a miss that reads the backend; the entries
\* are also gone at the await of a set whose backend write succeeds.
C22_InvalidateFirst ==
    Quiet =>
    \A itemsArg \in ScalarOrArray(SetItems) :
        LET ia == toArray(itemsArg)
        IN  /\ \A i \in 1..Len(ia) :
                  ~LruHas(CacheSetCall(cache, items, itemsArg, Undefined).cache, cacheKey(ia[i]))
            /\ \A failAt \in FailPoints(itemsArg) \ {Undefined} :
                  LET s == CacheSet(cache, items, itemsArg, failAt)
                  IN  /\ s.result = "Error"
                      /\ s.items = MemSet(items, Array(SubSeq(ia, 1, failAt)))
                      /\ s.cache = SelectSeq(cache, LAMBDA e : e.k \notin cacheKeysOf(ia))
                      /\ \A i \in 1..Len(ia) :
                            LET g == CacheGet(s.cache, s.items, KeyOf(ia[i]), now)
                            IN  /\ ~LruHas(s.cache, cacheKey(ia[i]))
                                /\ ~g.hit /\ g.reads = 1
                                /\ g.ret = MemGet(s.items, KeyOf(ia[i]), now).ret

\* The cache holds an older value of a/b; a set of a/b and a/b/c whose backend
\* throws after the first item leaves the new a/b in the store, no a/b/c, and
\* neither key in the cache.
C22_Witness ==
    /\ Quiet
    /\ LruHas(cache, cacheKey(KA))
    /\ cache[LruIndex(cache, cacheKey(KA))].v = Item(KA, 1, Undefined)
    /\ MemGet(items, KS, now).ret = Absent
    /\ LET s == CacheSet(cache, items,
                         Array(<<Item(KA, 2, Undefined), Item(KS, 3, Undefined)>>), 1)
       IN  /\ s.result = "Error"
           /\ MemGet(s.items, KA, now).ret = Item(KA, 2, Undefined)
           /\ MemGet(s.items, KS, now).ret = Absent
           /\ ~LruHas(s.cache, cacheKey(KA))
           /\ CacheGet(s.cache, s.items, KA, now).ret = Item(KA, 2, Undefined)

\* The queries of C26: a partition, with and without a prefix of the sort
\* key, in full and ascending, or limited and descending
BypassQueries ==
    {[pk |-> pk, sk |-> sk, reverse |-> rev, limit |-> IF rev THEN 1 ELSE Undefined] :
        pk \in {<<"a">>, <<"a", "/", "b">>}, sk \in {<<>>, <<"b">>}, rev \in {FALSE, TRUE}}

\* C26: query and stream bypass the cache.  Through the cache they return what
\* the backend's query and stream return on the backend's current state, also
\* when the cache holds older values of the same keys, and they leave every
\* cache entry as it is: a get after them returns what it returned before.
C26_QueryBypass ==
    \A q \in BypassQueries :
        LET r == CacheQuery(cache, items, q, now)
            sr == CacheStreamRead(cache, items, q, now)
        IN  /\ r.ret = MemQuery(items, q, now).ret
            /\ r.items = MemQuery(items, q, now).items
            /\ r.cache = cache
            /\ sr.chunks = MemStreamRead(items, q, now).chunks
            /\ sr.items = MemStreamRead(items, q, now).items
            /\ sr.cache = cache
            /\ \A k \in OpsKeys :
                   /\ CacheGet(r.cache, r.items, k, now).ret = CacheGet(cache, items, k, now).ret
                   /\ CacheGet(sr.cache, sr.items, k, now).ret
                          = CacheGet(cache, items, k, now).ret

\* The cache holds the older item of a/b, the backend the newer one: the query
\* of partition a through the cache returns the newer one, and get is still a
\* hit on the older one
C26_Witness ==
    /\ LruHas(cache, cacheKey(KA))
    /\ cache[LruIndex(cache, cacheKey(KA))].v = Item(KA, 1, Undefined)
    /\ MemGet(items, KA, now).ret = Item(KA, 2, Undefined)
    /\ LET q == [pk |-> <<"a">>, sk |-> <<>>, reverse |-> FALSE, limit |-> Undefined]
           r == CacheQuery(cache, items, q, now)
       IN  /\ \E i \in 1..Len(r.ret) : r.ret[i] = Item(KA, 2, Undefined)
           /\ \A i \in 1..Len(r.ret) : r.ret[i] # Item(KA, 1, Undefined)
           /\ CacheStreamRead(cache, items, q, now).chunks = r.ret \o <<EndOfStream>>
           /\ CacheGet(r.cache, r.items, KA, now).hit
           /\ CacheGet(r.cache, r.items, KA, now).ret = Item(KA, 1, Undefined)

\* C27: cache delete.  delete through the cache removes the entry of every
\* given key before the backend's delete, so also when that throws, and
\* leaves the other entries; after a delete that completed, with no other
\* call of the cache under way and nothing in between, the backend is as its
\* own delete leaves it, and a get of any of the keys through the cache is a
\* miss that returns absent.
C27_DeleteThenAbsent ==
    Quiet =>
    \A keysArg \in ScalarOrArray(OpsKeys) :
        \A failAt \in FailPoints(keysArg) :
            LET d == CacheDelete(cache, items, locks, keysArg, failAt)
                ka == toArray(keysArg)
            IN  /\ \A i \in 1..Len(ka) : ~LruHas(d.cache, cacheKey(ka[i]))
                /\ d.cache = SelectSeq(cache, LAMBDA e : e.k \notin cacheKeysOf(ka))
                /\ d.result = IF failAt = Undefined THEN "ok" ELSE "Error"
                /\ failAt = Undefined =>
                       /\ d.items = MemDelete(items, locks, keysArg).items
                       /\ d.locks = MemDelete(items, locks, keysArg).locks
                       /\ \A i \in 1..Len(ka) :
                              LET g == CacheGet(d.cache, d.items, ka[i], now)
                              IN  ~g.hit /\ g.reads = 1 /\ g.ret = Absent

\* The item of a/b is in the backend and in the cache, where a get finds it:
\* after the delete of a/b and a/b/c through the cache the get is a miss that
\* returns absent; when the backend's delete throws at once the entry is gone
\* all the same and the get reads the item from the backend.
C27_Witness ==
    /\ Quiet
    /\ MemGet(items, KA, now).ret # Absent
    /\ CacheGet(cache, items, KA, now).hit
    /\ LET d == CacheDelete(cache, items, locks, Array(<<KA, KS>>), Undefined)
       IN  /\ ~LruHas(d.cache, cacheKey(KA))
           /\ ~CacheGet(d.cache, d.items, KA, now).hit
           /\ CacheGet(d.cache, d.items, KA, now).ret = Absent
    /\ LET d == CacheDelete(cache, items, locks, Array(<<KA, KS>>), 0)
       IN  /\ d.result = "Error"
           /\ ~LruHas(d.cache, cacheKey(KA))
           /\ CacheGet(d.cache, d.items, KA, now).ret = MemGet(items, KA, now).ret

-----------------------------------------------------------------------------
(* A reader and a writer on one AtomicLRUCache.  Every write goes through     *)
(* the cache, so what the store holds for a key is the last write that was     *)
(* applied for it.  A call that waits for the backend resumes at any later     *)
(* time: the wrapped store may be any implementation, and the answer of a      *)
(* slow one arrives after calls that were made later have completed.           *)

Readers == {1}
Writers == {2}
RaceKeys == {KA, KE}
RaceItems == {Item(KA, 1, Undefined), Item(KA, 2, Undefined), Item(KE, 5, Undefined)}

NextCacheRace ==
    \/ \E c \in Readers : \E key \in RaceKeys : CacheGetStart(c, key)
    \/ \E c \in Readers : CacheGetEnd(c)
    \/ \E c \in Readers : \E keys \in SeqsUpTo(RaceKeys, MaxBatch) : CacheGetManyStart(c, keys)
    \/ \E c \in Readers : CacheGetManyEnd(c)
    \/ \E c \in Writers : \E item \in RaceItems : CacheSetStart(c, Scalar(item), Undefined)
    \/ \E c \in Writers : CacheSetEnd(c)
    \/ \E key \in RaceKeys : CacheDeleteCall(Scalar(key), Undefined)

SpecCacheRace == InitCache /\ [][NextCacheRace]_vars

\* C23: no stale value after an attempted write.  In every interleaving of
\* set with get and getMany calls through one cache, once a write of a key has
\* been applied to the backend and the calls have completed, the cache does
\* not hold, and so does not serve, an older value of that key: an entry of
\* the key is the item the backend holds.
C23_NoStaleValue ==
    \A k \in RaceKeys :
        (Quiet /\ MemGet(items, k, now).ret # Absent /\ LruHas(cache, cacheKey(k)))
        => cache[LruIndex(cache, cacheKey(k))].v = MemGet(items, k, now).ret

-----------------------------------------------------------------------------
(* SpecCacheLock: getLock and setAtomic through an AtomicLRUCache, next to    *)
(* getLock, setAtomic and delete on the AtomicMemoryDb it wraps.  A lock      *)
(* guards the whole batch of a setAtomic, so locks of one key are enough.     *)

LockCallers == {1}
LockKeys == {KA}
LockItems ==
    {Item(KA, 1, Undefined), Item(KA, 2, Undefined), Item(KS, 3, Undefined), Item(KT, 4, Undefined)}

CacheGetLockCall(key) ==
    LET r == CacheGetLock(cache, locks, key, now, nextVersion)
    IN  /\ r.nextVersion <= MaxVersion + 1
        /\ cache' = r.cache
        /\ locks' = r.locks
        /\ nextVersion' = r.nextVersion
        /\ retired' = retire(locks, r.locks)
        /\ UNCHANGED <<items, now, ticks, pending, callerVars, fetching, capacity>>

\* setAtomic of the cache up to its await; when the backend throws the call
\* is over
CacheSetAtomicStart(c, itemsArg, locksArg) ==
    LET r == MemSetAtomic(items, locks, nextVersion, itemsArg, locksArg)
    IN  /\ fetching[c] = Idle
        /\ r.nextVersion <= MaxVersion + 1
        /\ items' = r.items
        /\ locks' = r.locks
        /\ nextVersion' = r.nextVersion
        /\ retired' = retire(locks, r.locks)
        /\ fetching' = IF r.result = "ok"
                       THEN [fetching EXCEPT ![c] = [atomicItems |-> itemsArg]]
                       ELSE fetching
        /\ UNCHANGED <<cache, capacity, now, ticks, pending, callerVars>>

CacheSetAtomicEnd(c) ==
    /\ fetching[c] # Idle
    /\ "atomicItems" \in DOMAIN fetching[c]
    /\ cache' = CacheSetAtomicResume(cache, fetching[c].atomicItems)
    /\ fetching' = [fetching EXCEPT ![c] = Idle]
    /\ UNCHANGED <<storeVars, now, ticks, callerVars, capacity>>

NextCacheLock ==
    \/ \E key \in LockKeys : CacheGetLockCall(key)
    \/ \E c \in LockCallers : \E itemsArg \in ScalarOrArray(LockItems) :
          \E locksArg \in ScalarOrArray(LockInputs(locks, nextVersion)) :
              CacheSetAtomicStart(c, itemsArg, locksArg)
    \/ \E c \in LockCallers : CacheSetAtomicEnd(c)
    \/ \E c \in LockCallers : \E item \in LockItems : CacheGetStart(c, KeyOf(item))
    \/ \E c \in LockCallers : CacheGetEnd(c)
    \/ \E key \in LockKeys : GetLock(key)
    \/ \E item \in LockItems : \E lock \in LockInputs(locks, nextVersion) :
          SetAtomic(Scalar(item), Scalar(lock))
    \/ \E key \in LockKeys : Delete(Scalar(key))

SpecCacheLock == InitCache /\ [][NextCacheLock]_vars

\* C24: cache setAtomic.  setAtomic through the cache gives the backend's
\* setAtomic the items and locks as they are.  After success a get through
\* the cache returns, for every item of the batch, the new value of its key
\* (the last item of the batch with that key); on RaceCondition or an
\* invalid-argument error the caller gets the same error and the cache is as
\* it was.
C24_SetAtomicThenGet ==
    Quiet =>
    \A itemsArg \in ScalarOrArray(LockItems) :
        \A locksArg \in ScalarOrArray(LockInputs(locks, nextVersion)) :
            LET r == CacheSetAtomic(cache, items, locks, nextVersion, itemsArg, locksArg)
                m == MemSetAtomic(items, locks, nextVersion, itemsArg, locksArg)
                ia == toArray(itemsArg)
            IN  /\ r.items = m.items /\ r.locks = m.locks /\ r.result = m.result
                /\ r.result # "ok" => r.cache = cache
                /\ r.result = "ok" =>
                       \A i \in LastOfKey(ia) :
                           CacheGet(r.cache, r.items, KeyOf(ia[i]), now).ret = ia[i]

\* C25: locks are never cached.  getLock through the cache changes the
\* backend and returns exactly what the backend's getLock does on the locks
\* the backend holds now, it leaves the cache as it was, and no entry of the
\* cache is a lock object.
C25_LocksNotCached ==
    /\ \A i \in 1..Len(cache) : "version" \notin DOMAIN cache[i].v
    /\ \A key \in LockKeys :
           LET r == CacheGetLock(cache, locks, key, now, nextVersion)
               m == MemGetLock(locks, key, now, nextVersion)
           IN  /\ r.cache = cache
               /\ r.ret = m.ret
               /\ r.locks = m.locks
               /\ r.nextVersion = m.nextVersion

\* The item of KA is cached, the lock of KA has been replaced in the backend
\* since it was first handed out, and getLock through the cache returns the
\* lock the backend holds now
C25_Witness ==
    /\ LruHas(cache, cacheKey(KA))
    /\ getKey(KA) \in DOMAIN locks
    /\ retired # {}
    /\ locks[getKey(KA)].version \notin retired
    /\ CacheGetLock(cache, locks, KA, now, nextVersion).ret = locks[getKey(KA)]
    /\ CacheGetLock(cache, locks, KA, now, nextVersion).cache = cache

-----------------------------------------------------------------------------
(* Eviction and the keying of the cache *)

\* C28: LRU eviction.  A cache of capacity N never holds more than N entries.
\* A get of a cached key makes its entry the most recently used one.  When
\* the cache holds N keys and get brings in a stored key that differs from
\* all of them, the get reads the backend and the least recently used key is
\* evicted: the next get of that key reads the backend, the other N keys are
\* hits.
C28_Eviction ==
    /\ Len(cache) <= capacity
    /\ Quiet =>
          /\ \A i \in 1..Len(cache) :
                 LET g == CacheGet(cache, items, KeyOf(cache[i].v), now)
                 IN  g.hit /\ g.cache = <<cache[i]>> \o LruWithout(cache, cache[i].k)
          /\ \A k \in CacheKeys :
                 (/\ Len(cache) = capacity
                  /\ MemGet(items, k, now).ret # Absent
                  /\ \A i \in 1..Len(cache) : KeyOf(cache[i].v) # k)
                 => LET g == CacheGet(cache, items, k, now)
                        lru == cache[Len(cache)]
                    IN  /\ ~g.hit /\ g.reads = 1
                        /\ Len(g.cache) = capacity
                        /\ KeyOf(g.cache[1].v) = k
                        /\ SubSeq(g.cache, 2, capacity) = SubSeq(cache, 1, capacity - 1)
                        /\ ~CacheGet(g.cache, g.items, KeyOf(lru.v), now).hit
                        /\ \A i \in 1..capacity : CacheGet(g.cache, g.items, KeyOf(g.cache[i].v), now).hit

\* The memoized item of a key: the entry that holds an item of that key
Memoized(ca, key) == {i \in 1..Len(ca) : KeyOf(ca[i].v) = key}

\* C29: cache getMany.  getMany through the cache returns a list of the
\* input's length whose element i is the memoized item of keys[i] when that
\* key is cached and the backend's current result for keys[i] otherwise; the
\* backend is asked once, for the uncached keys in their order, and not at
\* all when every key is cached; no absent result is memoized.  For every
\* capacity.
C29_GetMany ==
    Quiet =>
    \A keys \in SeqsUpTo(OpsKeys, MaxBatch) :
        LET g == CacheGetMany(cache, items, keys, now)
            uncached == SelectSeq(keys, LAMBDA k : Memoized(cache, k) = {})
        IN  /\ Len(g.ret) = Len(keys)
            /\ \A i \in 1..Len(keys) :
                   g.ret[i] = IF Memoized(cache, keys[i]) # {}
                              THEN cache[CHOOSE j \in Memoized(cache, keys[i]) : TRUE].v
                              ELSE MemGet(items, keys[i], now).ret
            /\ g.missingKeys = uncached
            /\ g.calls = IF uncached = <<>> THEN 0 ELSE 1
            /\ \A j \in 1..Len(g.cache) :
                   /\ g.cache[j].v # Absent
                   /\ \/ \E i \in 1..Len(cache) : cache[i] = g.cache[j]
                      \/ \E i \in 1..Len(keys) :
                            /\ g.cache[j].v = MemGet(items, keys[i], now).ret
                            /\ g.cache[j].k = cacheKey(keys[i])

\* C30: the cache is keyed by item key.  For keys with '/' in pk or sk too,
\* get and getMany through the cache return for a key nothing but an item of
\* that (pk, sk), and a set or delete of one key through the cache leaves the
\* entry that holds the item of another key, unless the set evicts it from a
\* full cache.
C30_KeyedByItemKey ==
    Quiet =>
    /\ \A k \in OpsKeys :
           LET g == CacheGet(cache, items, k, now)
           IN  g.ret # Absent => KeyOf(g.ret) = k
    /\ \A keys \in SeqsUpTo(OpsKeys, MaxBatch) :
           LET g == CacheGetMany(cache, items, keys, now)
           IN  \A i \in 1..Len(keys) : g.ret[i] # Absent => KeyOf(g.ret[i]) = keys[i]
    /\ \A item \in OpsItems : \A j \in 1..Len(cache) :
           KeyOf(cache[j].v) # KeyOf(item)
           => /\ \E n \in 1..Len(CacheDelete(cache, items, locks, Scalar(KeyOf(item)), Undefined).cache) :
                    CacheDelete(cache, items, locks, Scalar(KeyOf(item)), Undefined).cache[n] = cache[j]
              /\ Len(cache) < capacity
                    => \E n \in 1..Len(CacheSet(cache, items, Scalar(item), Undefined).cache) :
                          CacheSet(cache, items, Scalar(item), Undefined).cache[n] = cache[j]

-----------------------------------------------------------------------------
(* SpecCacheTtl: reads through an AtomicLRUCache of items that expire while   *)
(* the clock moves; the items are written to the store directly or through   *)
(* the cache.                                                                  *)

\* An item whose ttl is the present second, one without ttl under the same
\* key, and one that expires a second later
TtlItems == {Item(KA, 1, Epoch), Item(KA, 2, Undefined), Item(KE, 5, Epoch + 1)}

NextCacheTtl ==
    \/ \E c \in OpsCallers : \E key \in RaceKeys : CacheGetStart(c, key)
    \/ \E c \in OpsCallers : CacheGetEnd(c)
    \/ \E c \in OpsCallers : \E keys \in SeqsUpTo(RaceKeys, MaxBatch) : CacheGetManyStart(c, keys)
    \/ \E c \in OpsCallers : CacheGetManyEnd(c)
    \/ \E c \in OpsCallers : \E item \in TtlItems : CacheSetStart(c, Scalar(item), Undefined)
    \/ \E c \in OpsCallers : CacheSetEnd(c)
    \/ \E item \in TtlItems : Set(Scalar(item))
    \/ Tick(1)

SpecCacheTtl == InitCache /\ [][NextCacheTtl]_vars

\* The ttl of the item is set and earlier than the time t
PastItem(item, t) == item.ttl # Undefined /\ item.ttl < t

\* C31: the cache treats expired items as absent.  What get and getMany
\* through the cache return for a key is never an item whose ttl is set and
\* earlier than the current time, also when the item was memoized before its
\* ttl passed.
C31_CacheExpiredAbsent ==
    Quiet =>
    /\ \A k \in RaceKeys :
           LET g == CacheGet(cache, items, k, now)
           IN  g.ret # Absent => ~PastItem(g.ret, now)
    /\ \A keys \in SeqsUpTo(RaceKeys, MaxBatch) :
           LET g == CacheGetMany(cache, items, keys, now)
           IN  \A i \in 1..Len(keys) : g.ret[i] # Absent => ~PastItem(g.ret[i], now)

-----------------------------------------------------------------------------
(* SpecLockTtl: getLock on one key while the clock moves, with a setAtomic    *)
(* whose caller hands in a lock object with a ttl of its own choice: the      *)
(* persisted one, none, or one that lies two lock lifetimes ahead.            *)

SuppliedLocks(lks, nv) ==
    {Lock(KA, ulid(v), t) :
        v \in 1..(nv - 1),
        t \in {Undefined, Epoch + 2 * LockTtl} \cup {lks[x].ttl : x \in DOMAIN lks}}

NextLockTtl ==
    \/ GetLock(KA)
    \/ \E item \in TimeItems : \E lock \in SuppliedLocks(locks, nextVersion) :
          SetAtomic(Scalar(item), Scalar(lock))
    \/ Delete(Scalar(KA))
    \/ \E d \in TickSteps : Tick(d)

SpecLockTtl == Init /\ [][NextLockTtl]_vars

\* C32: every lock that getLock returns has a ttl, with at least an hour left
\* and at most a day: now + 3600 <= ttl <= now + 86400.  A persisted lock
\* without ttl is replaced by getLock with a lock of another version and
\* ttl = now + 86400.
C32_LockTtlRange ==
    LET r == MemGetLock(locks, KA, now, nextVersion)
        k == getKey(KA)
    IN  /\ r.ret.ttl # Undefined
        /\ r.ret.ttl - now >= RefreshThreshold
        /\ r.ret.ttl <= now + LockTtl
        /\ (k \in DOMAIN locks /\ locks[k].ttl = Undefined)
              => /\ r.ret.version # locks[k].version
                 /\ r.ret.ttl = now + LockTtl
                 /\ r.locks[k] = r.ret

\* The items of the batches that one lock guards; the last two are filed under one
\* storage key
GuardedItems == {Item(KA, 1, Undefined), Item(KB, 2, Undefined), Item(KC, 3, Undefined)}

\* The batches of one to MaxBatch items

\* C35: one lock may guard several items.  setAtomic of n items with the
\* same lock L at every position succeeds when L has the persisted version:
\* the items are written as set writes them, and the locks are as before but
\* for the one under L's key, which has a new version, different from L's.
\* With a stale L the call fails with RaceCondition and changes nothing.
C35_OneLockGuardsBatch ==
    \A L \in SuppliedLocks(locks, nextVersion) : \A ia \in (SeqsUpTo(GuardedItems, MaxBatch) \ {<<>>}) :
        LET la == [i \in 1..Len(ia) |-> L]
            r == MemSetAtomic(items, locks, nextVersion, Array(ia), Array(la))
        IN  IF matchesPersisted(locks, L)
            THEN /\ r.result = "ok"
                 /\ r.items = MemSet(items, Array(ia))
                 /\ DOMAIN r.locks = DOMAIN locks
                 /\ \A k \in DOMAIN locks : k # getKey(L) => r.locks[k] = locks[k]
                 /\ KeyOf(r.locks[getKey(L)]) = KeyOf(L)
                 /\ r.locks[getKey(L)].version # L.version
                 /\ r.locks[getKey(L)].version \notin knownVersions
            ELSE /\ r.result = "RaceCondition"
                 /\ r.items = items
                 /\ r.locks = locks

\* The lock of a/b is persisted and the store holds an item: a batch of
\* MaxBatch items under that one lock commits, all its items are readable and
\* one lock is persisted, with a version that was never persisted before;
\* the same batch under a replaced version of the lock is refused.
C35_Witness ==
    /\ items # <<>>
    /\ retired # {}
    /\ \E L \in SuppliedLocks(locks, nextVersion) :
          \E ia \in (SeqsUpTo(GuardedItems, MaxBatch) \ {<<>>}) :
             LET la == [i \in 1..Len(ia) |-> L]
                 r == MemSetAtomic(items, locks, nextVersion, Array(ia), Array(la))
                 stale == [L EXCEPT !.version = CHOOSE v \in retired : TRUE]
                 q == MemSetAtomic(items, locks, nextVersion, Array(ia),
                                   Array([i \in 1..Len(ia) |-> stale]))
             IN  /\ Len(ia) = MaxBatch
                 /\ getKey(ia[1]) # getKey(ia[2])
                 /\ matchesPersisted(locks, L)
                 /\ r.result = "ok"
                 /\ \A i \in 1..2 : MemGet(r.items, KeyOf(ia[i]), now).ret = ia[i]
                 /\ Cardinality(DOMAIN r.locks) = 1
                 /\ r.locks[getKey(L)].version \notin knownVersions \cup {L.version}
                 /\ q.result = "RaceCondition" /\ q.items = items /\ q.locks = locks

-----------------------------------------------------------------------------
(* SpecCacheSeq: one caller whose every read and write goes through one       *)
(* AtomicLRUCache, one call at a time; the backend never fails and no item    *)
(* has a ttl.                                                                  *)

NextCacheSeq ==
    \/ \E c \in OpsCallers : \E key \in OpsKeys : CacheGetStart(c, key)
    \/ \E c \in OpsCallers : CacheGetEnd(c)
    \/ \E c \in OpsCallers : \E keys \in SeqsUpTo(OpsKeys, MaxBatch) : CacheGetManyStart(c, keys)
    \/ \E c \in OpsCallers : CacheGetManyEnd(c)
    \/ \E c \in OpsCallers : \E itemsArg \in ScalarOrArray(OpsItems) :
          CacheSetStart(c, itemsArg, Undefined)
    \/ \E c \in OpsCallers : CacheSetEnd(c)
    \/ Quiet /\ \E key \in LockKeys : CacheGetLockCall(key)
    \/ \E c \in OpsCallers : \E itemsArg \in ScalarOrArray(OpsItems) :
          \E locksArg \in ScalarOrArray(LockInputs(locks, nextVersion)) :
              CacheSetAtomicStart(c, itemsArg, locksArg)
    \/ \E c \in OpsCallers : CacheSetAtomicEnd(c)
    \/ Quiet /\ \E keysArg \in ScalarOrArray(OpsKeys) : CacheDeleteCall(keysArg, Undefined)

SpecCacheSeq == InitCache /\ [][NextCacheSeq]_vars

\* C33: single-instance cache coherence.  When every write goes through one
\* cache, the calls run one at a time, no backend call fails and no item has
\* a ttl, then after every call each entry of the cache is the item the
\* backend holds for the entry's key, and get through the cache returns for
\* every key what get on the backend returns.
C33_Coherent ==
    Quiet =>
    /\ \A i \in 1..Len(cache) : cache[i].v = MemGet(items, KeyOf(cache[i].v), now).ret
    /\ \A k \in OpsKeys : CacheGet(cache, items, k, now).ret = MemGet(items, k, now).ret

-----------------------------------------------------------------------------
(* SpecCacheDelete: a reader whose get and getMany wait for the backend while *)
(* delete is called on the same AtomicLRUCache.  The items come into the      *)
(* store by a set on the store, so that an entry of the cache can only be     *)
(* the work of the reader.                                                     *)

NextCacheDelete ==
    \/ \E c \in Readers : \E key \in RaceKeys : CacheGetStart(c, key)
    \/ \E c \in Readers : CacheGetEnd(c)
    \/ \E c \in Readers : \E keys \in SeqsUpTo(RaceKeys, MaxBatch) : CacheGetManyStart(c, keys)
    \/ \E c \in Readers : CacheGetManyEnd(c)
    \/ \E keysArg \in ScalarOrArray(RaceKeys) : CacheDeleteCall(keysArg, Undefined)
    \/ \E item \in RaceItems : Set(Scalar(item))

SpecCacheDelete == InitCache /\ [][NextCacheDelete]_vars

\* C34: delete against a concurrent get.  In every interleaving of a delete
\* of a key with a get or getMany of it that waits for the backend, once the
\* calls have completed and the key is gone from the backend, the cache holds
\* no entry of the key and a further get returns absent.
C34_DeleteWins ==
    \A k \in RaceKeys :
        (Quiet /\ MemGet(items, k, now).ret = Absent)
        => /\ ~LruHas(cache, cacheKey(k))
           /\ CacheGet(cache, items, k, now).ret = Absent

-----------------------------------------------------------------------------
(* SpecFrame: what the reads and delete leave alone.  One AtomicMemoryDb     *)
(* holds items with and without ttl and the locks of their keys, while the   *)
(* clock moves by seconds.                                                    *)

\* Two items that expire while the clock moves, one second apart, and an
\* item without ttl whose partition key contains ':'
FrameItems == {Item(KA, 1, Epoch), Item(KB, 2, Epoch + 1), Item(KC, 3, Undefined)}

FrameQueries ==
    [pk : {<<"a">>, <<"a", ":", "b">>}, sk : {<<>>, <<"b">>},
     reverse : {FALSE}, limit : {Undefined, 1}]

NextFrame ==
    \/ \E item \in FrameItems : Set(Scalar(item))
    \/ \E key \in Keys : GetLock(key)
    \/ \E key \in Keys : Delete(Scalar(key))
    \/ \E key \in Keys : Get(key)
    \/ \E keys \in SeqsUpTo(Keys, MaxBatch) : GetMany(keys)
    \/ \E q \in FrameQueries : Query(q)
    \/ \E q \in FrameQueries : q.sk = <<>> /\ Stream(q)
    \/ StreamRead
    \/ Tick(1)

SpecFrame == Init /\ [][NextFrame]_vars

\* The map after a read is the map before it without some entries whose ttl
\* has passed: the entries that stay are the same and in the same order
OnlyExpiredRemoved(before, after, t) ==
    LET kept == {after[i] : i \in 1..Len(after)}
    IN  /\ after = SelectSeq(before, LAMBDA e : e \in kept)
        /\ \A i \in 1..Len(before) : before[i] \notin kept => PastItem(before[i].v, t)

\* C36: reads do not change live data.  get, getMany, query and the read of a
\* stream change the item map only by removing items whose ttl has passed,
\* so every item that is not expired stays as it is, and they leave every
\* lock alone; delete of a key removes the item and the lock of that key,
\* and the item and the lock of every other key stay as they are.
C36_ReadAndDeleteFrame ==
    /\ \A k \in Keys : OnlyExpiredRemoved(items, MemGet(items, k, now).items, now)
    /\ \A keys \in SeqsUpTo(Keys, MaxBatch) :
          OnlyExpiredRemoved(items, MemGetMany(items, keys, now).items, now)
    /\ \A q \in FrameQueries :
          /\ OnlyExpiredRemoved(items, MemQuery(items, q, now).items, now)
          /\ OnlyExpiredRemoved(items, MemStreamRead(items, q, now).items, now)
    /\ \A k \in Keys :
          LET r == MemDelete(items, locks, Scalar(k))
          IN  /\ MemGet(r.items, k, now).ret = Absent
              /\ lockAt(r.locks, k) = lockAt(<<>>, k)
              /\ \A k2 \in Keys \ {k} :
                    /\ MemGet(r.items, k2, now).ret = MemGet(items, k2, now).ret
                    /\ lockAt(r.locks, k2) = lockAt(locks, k2)

====
